---------------------------- MODULE Spec2Model ----------------------------
(***************************************************************************)
(* Recomendarr: the recommendation engine (lib/engine.ts, shipped inside   *)
(* src/src/lib/radarr.ts from line 142), the Radarr / Sonarr add           *)
(* operations, the TMDb helpers, the SQLite record store and the          *)
(* configuration module (lib/config.ts).                                   *)
(*                                                                         *)
(* JavaScript runs one callback at a time: every action below is the code  *)
(* between two suspension points (await) of one invocation.  Answers of    *)
(* the external services are inputs drawn with \E.  An optional number or  *)
(* string that JavaScript tests by truthiness is 0 or <<>> when absent.    *)
(* Strings that the code lower-cases are sequences of one-letter strings.  *)
(***************************************************************************)
EXTENDS Integers, Sequences, FiniteSets, TLC

VARIABLES
    isRunning,   \* engine.ts module variable `isRunning`
    pc,          \* per invocation of runRecommendationEngine: where it is suspended
    run,         \* per invocation: the locals of runRecommendationEngine
    recs,        \* table `recommendations`, in insertion order
    radarrLib,   \* the movies Radarr holds: records [tmdbId, title]
    sonarrLib,   \* the series Sonarr holds: records [tvdbId, title]
    callsLeft,   \* per caller: calls of the entry point it still makes
    env,         \* what the outside world answers with: the values and how many
    settings     \* lib/config.ts: table `settings`, process.env, the module's cache

vars == <<isRunning, pc, run, recs, radarrLib, sonarrLib, callsLeft, env, settings>>

----------------------------------------------------------------------------
(* Bounds *)

\* Most candidates the recommenders answer a pass with, and longest watch
\* history, in the pipeline specification.
MaxList == 1

\* Calls of approveAndAdd in the commit specification.
MaxApprovals == 2

Callers == {"c1", "c2"}

----------------------------------------------------------------------------
(* Strings *)

UpperLetters == <<"A", "C", "D", "E", "F", "H", "L", "N", "R">>
LowerLetters == <<"a", "c", "d", "e", "f", "h", "l", "n", "r">>

LowerChar(ch) ==
    IF \E i \in DOMAIN UpperLetters : UpperLetters[i] = ch
    THEN LowerLetters[CHOOSE i \in DOMAIN UpperLetters : UpperLetters[i] = ch]
    ELSE ch

\* String.prototype.toLowerCase
toLowerCase(s) == [i \in DOMAIN s |-> LowerChar(s[i])]

Range(seq) == {seq[i] : i \in DOMAIN seq}

\* Array.prototype.slice(0, n)
Slice(s, n) == SubSeq(s, 1, IF Len(s) < n THEN Len(s) ELSE n)

Min(a, b) == IF a < b THEN a ELSE b

\* Math.ceil(a / b) for a >= 0, b > 0
CeilDiv(a, b) == (a + b - 1) \div b

\* All sequences over S of length at most n
SeqsUpTo(S, n) == UNION {[1..k -> S] : k \in 0..n}

----------------------------------------------------------------------------
(* The values the external services answer with *)

Dune  == <<"D", "u", "n", "e">>
dune  == <<"d", "u", "n", "e">>
DUNE  == <<"D", "U", "N", "E">>
Heat  == <<"H", "e", "a", "t">>
Lost  == <<"L", "o", "s", "t">>
Drama == <<"D", "r", "a", "m", "a">>
drama == <<"d", "r", "a", "m", "a">>
Comedy == <<"C", "o", "m", "e", "d", "y">>
en    == <<"e", "n">>
EN    == <<"E", "N">>
fr    == <<"f", "r">>
all   == <<"a", "l", "l">>

\* TmdbResult. year is parseInt(release_date.substring(0, 4)), or of
\* first_air_date; 0 when neither date is given.
TmdbResults ==
    { [id |-> 1, title |-> Dune, year |-> 2021, poster_path |-> TRUE,
       genre_ids |-> <<18>>, original_language |-> en],
      [id |-> 2, title |-> Heat, year |-> 1995, poster_path |-> FALSE,
       genre_ids |-> <<35>>, original_language |-> fr] }

\* WatchedItem
WatchedItems ==
    { [title |-> Heat, mediaType |-> "movie", tmdbId |-> 2],
      [title |-> Lost, mediaType |-> "series", tmdbId |-> 0] }

\* An element of the JSON array the model answers with (AiRecommendation);
\* titled = FALSE is an element without a title.
AiItems ==
    { [title |-> dune, titled |-> TRUE, year |-> 0, type |-> "movie", tmdb_id |-> 0],
      [title |-> Heat, titled |-> TRUE, year |-> 0, type |-> "series", tmdb_id |-> 2],
      [title |-> <<>>, titled |-> FALSE, year |-> 0, type |-> "movie", tmdb_id |-> 0] }

\* tvdb_id of /tv/{id}/external_ids; 0 when TMDb knows none
TvdbIds == {0, 7}

\* EngineFilters; present = FALSE is a call without filters
NoFilters ==
    [present |-> FALSE, genres |-> <<>>, language |-> <<>>, yearMin |-> 0,
     yearMax |-> 0, mediaType |-> ""]

FilterChoices ==
    { NoFilters,
      [present |-> TRUE, genres |-> <<drama>>, language |-> EN, yearMin |-> 0,
       yearMax |-> 0, mediaType |-> ""],
      [present |-> TRUE, genres |-> <<>>, language |-> all, yearMin |-> 2000,
       yearMax |-> 2021, mediaType |-> "all"],
      [present |-> TRUE, genres |-> <<>>, language |-> <<>>, yearMin |-> 0,
       yearMax |-> 0, mediaType |-> "movie"] }

\* cfg.app.maxRecommendationsPerRun as configured
PerRunChoices == {2}

\* What Radarr and Sonarr hold before the first run
InitialRadarr == {[tmdbId |-> 1, title |-> DUNE]}
InitialSonarr == {[tvdbId |-> 7, title |-> Lost]}

----------------------------------------------------------------------------
(* lib/tmdb.ts *)

Unknown == <<"U", "n", "k", "n", "o", "w", "n">>

\* GENRE_MAP[id]; <<>> when the table has no entry
GenreName(id) ==
    CASE id = 18 -> Drama
      [] id = 35 -> Comedy
      [] OTHER -> <<>>

\* result.genre_ids?.map((id) => GENRE_MAP[id] || 'Unknown')
TmdbGenres(ids) ==
    [i \in DOMAIN ids |-> IF GenreName(ids[i]) = <<>> THEN Unknown ELSE GenreName(ids[i])]

tmdbResultToRecommendation_Approved(result, type, source, basedOn) ==
    [id |-> 0, title |-> result.title, titled |-> TRUE, year |-> result.year,
     language |-> result.original_language, mediaType |-> type,
     tmdbId |-> result.id, tvdbId |-> 0, poster |-> result.poster_path,
     genres |-> TmdbGenres(result.genre_ids), source |-> source,
     basedOn |-> basedOn, status |-> "approved"]

tmdbResultToRecommendation(result, type, source, basedOn) ==
    [id |-> 0, title |-> result.title, titled |-> TRUE, year |-> result.year,
     language |-> result.original_language, mediaType |-> type,
     tmdbId |-> result.id, tvdbId |-> 0, poster |-> result.poster_path,
     genres |-> TmdbGenres(result.genre_ids), source |-> source,
     basedOn |-> basedOn, status |-> "pending"]

\* The loop of getRecommendationsForItem over [...recs, ...similar]: it stops
\* at the first result already seen, and once maxPerItem results are kept.
KeepResults_All(rest, seenIds, kept, maxPerItem) == rest

RECURSIVE KeepResults(_, _, _, _)
KeepResults(rest, seenIds, kept, maxPerItem) ==
    IF rest = <<>> THEN <<>>
    ELSE IF Head(rest).id \in seenIds \/ kept >= maxPerItem THEN <<>>
    ELSE <<Head(rest)>> \o
         KeepResults(Tail(rest), seenIds \cup {Head(rest).id}, kept + 1, maxPerItem)

\* getRecommendationsForItem once its three requests are answered: found is the
\* answer of searchTmdb (asked only for an item without tmdbId; id 0 is null)
getRecommendationsForItem(item, maxPerItem, foundId, recommended, similar) ==
    IF item.tmdbId = 0 /\ foundId = 0 THEN <<>>
    ELSE LET kept == KeepResults(recommended \o similar, {}, 0, maxPerItem)
         IN  [i \in DOMAIN kept |->
                 tmdbResultToRecommendation(kept[i], item.mediaType, "tmdb", item.title)]

\* discoverByFilters: the kinds it queries
DiscoverTypes(filters) ==
    IF filters.mediaType = "" \/ filters.mediaType = "all" THEN <<"movie", "series">>
    ELSE IF filters.mediaType = "movie" THEN <<"movie">>
    ELSE <<"series">>

----------------------------------------------------------------------------
(* lib/ai-recommender.ts *)

\* parsed.map(...) of getAiRecommendations
AiToRecommendation(item) ==
    [id |-> 0, title |-> item.title, titled |-> item.titled, year |-> item.year,
     language |-> <<>>,
     mediaType |-> IF item.type = "series" THEN "series" ELSE "movie",
     tmdbId |-> item.tmdb_id, tvdbId |-> 0, poster |-> FALSE, genres |-> <<>>,
     source |-> "ai", basedOn |-> <<>>, status |-> "pending"]

----------------------------------------------------------------------------
(* lib/database.ts: the table `recommendations` *)

RowOf(rec, id) ==
    [id |-> id, title |-> rec.title, year |-> rec.year, mediaType |-> rec.mediaType,
     tmdbId |-> rec.tmdbId, tvdbId |-> rec.tvdbId, poster |-> rec.poster,
     genres |-> rec.genres, source |-> rec.source, status |-> rec.status]

\* crypto.randomUUID(): an id no row has
NewId(table) == Len(table) + 1

\* SELECT id FROM recommendations WHERE tmdb_id = ? AND media_type = ?
ExistingRows_None(table, rec) == {}

ExistingRows(table, rec) ==
    {i \in DOMAIN table :
        table[i].tmdbId = rec.tmdbId /\ table[i].mediaType = rec.mediaType}

\* addRecommendation: the table afterwards and the id of the returned record
addRecommendation(table, rec) ==
    LET id == IF rec.id # 0 THEN rec.id ELSE NewId(table)
    IN  IF rec.tmdbId # 0 /\ ExistingRows(table, rec) # {}
        THEN [table |-> table,
              id |-> table[CHOOSE i \in ExistingRows(table, rec) :
                              \A j \in ExistingRows(table, rec) : i <= j].id]
        ELSE [table |-> Append(table, RowOf(rec, id)), id |-> id]

\* updateRecommendationStatus: UPDATE ... WHERE id = ? (an undefined id binds
\* NULL and matches no row)
updateRecommendationStatus_EveryRow(table, id, status) ==
    [i \in DOMAIN table |-> [table[i] EXCEPT !.status = status]]

updateRecommendationStatus(table, id, status) ==
    [i \in DOMAIN table |->
        IF id # 0 /\ table[i].id = id THEN [table[i] EXCEPT !.status = status]
        ELSE table[i]]

\* What updateRecommendationStatus returns: result.changes > 0
StatusChanged(table, id) == id # 0 /\ \E i \in DOMAIN table : table[i].id = id

----------------------------------------------------------------------------
(* lib/engine.ts: runRecommendationEngine *)

ZeroResult ==
    [watchedCount |-> 0, tmdbRecommendations |-> 0, aiRecommendations |-> 0,
     totalNew |-> 0, addedToArr |-> 0, errors |-> <<>>]

EmptyLibrary ==
    [radarrTmdbIds |-> {}, radarrTitles |-> {}, sonarrTvdbIds |-> {},
     sonarrTitles |-> {}, watchedTitles |-> {}]

\* What an observer of one invocation records: the flag the guard read; how
\* the history request ended; how many recommender, addRecommendation and
\* add calls were made; how many add calls returned success, and how many
\* did not; how many candidates the merge skipped as known (line 412) and
\* filtered out (lines 423-448); whether auto-add was on; the candidates
\* whose add call returned success; whether an add call sent a create
\* request for an id the target held; the positions in allRecs of the
\* candidates that went past the `seen` test of line 327; how many
\* addRecommendation calls found the row stored already; the library targets
\* whose listing failed; how many history items had their catalog requests
\* fail on the network; the kinds discoverByFilters queried, the kinds whose
\* query failed on the network, and how many results the queries that were
\* answered returned within the share of their kind; how many candidates had
\* an enrichment search fail on the network; the result lists the last
\* history item was answered with, recommendations followed by similar (in
\* the worlds that keep them).
NoObs ==
    [sawRunning |-> FALSE, history |-> "none", recommender |-> 0, persist |-> 0,
     add |-> 0, addOk |-> 0, addNotOk |-> 0, skipped |-> 0, filtered |-> 0,
     autoAdd |-> FALSE, added |-> {}, sentHeld |-> FALSE, kept |-> <<>>,
     existing |-> 0, unlisted |-> {}, netFailed |-> 0,
     queried |-> {}, dropped |-> {}, found |-> 0, searchDown |-> 0,
     lists |-> <<>>]

\* The locals of one invocation of approveAndAdd: the id asked for, the row
\* found, the id the add call is made with, and the value returned.  What an
\* observer of the invocation records besides: the status the row was read
\* with; the native ids of the lookup results whose title equals the row's,
\* case aside; whether the lookup answered with no result, and (in the
\* worlds that follow the ladder) the results it answered with; whether an add
\* call was made, whether the target held its id at that moment, whether the target held its id and found metadata for it,
\* whether a create request was sent and whether it created an entry.
NoApprove ==
    [id |-> 0, mediaType |-> "", title |-> <<>>, tmdbId |-> 0, tvdbId |-> 0,
     target |-> 0, success |-> FALSE, message |-> "",
     status |-> "", exactIds |-> {}, zero |-> FALSE, results |-> <<>>,
     called |-> FALSE, heldAtCall |-> FALSE,
     held |-> FALSE, found |-> FALSE, sent |-> FALSE, created |-> FALSE]

EmptyRun ==
    [filters |-> NoFilters, result |-> ZeroResult, library |-> EmptyLibrary,
     work |-> <<>>, maxPerItem |-> 0, maxPerRun |-> 0,
     allTmdbRecs |-> <<>>, aiRecs |-> <<>>, allRecs |-> <<>>, seen |-> {},
     uniqueRecs |-> <<>>, toAdd |-> <<>>, obs |-> NoObs, approve |-> NoApprove]

InPass == {"radarr", "sonarr", "history", "items", "discover", "ai", "merge", "autoadd"}
Ended  == {"returned", "thrown"}
\* approveAndAdd: how it ends (its promise is fulfilled with a value, or
\* rejected)
ApproveEnded == {"replied", "failed"}
\* "conflict": POST /api/engine answered 409 without calling the engine
Settled == Ended \cup ApproveEnded \cup {"rejected", "conflict"}

\* Invocations between the guard and their exit
Passes == {c \in Callers : pc[c] \in InPass}

\* `if (isRunning) throw new Error(...)`
\* (a guard that lets every call through)
GuardRejects_Never(flag) == FALSE
GuardRejects(flag) == flag

\* `finally { isRunning = false; }`: the flag after an exit of kind how
\* (a reset that a thrown error skips)
FlagAfterExit_ReturnOnly(how) == how = "thrown"
FlagAfterExit(how) == FALSE

\* The locals that die with the invocation (the library snapshot and the
\* saved candidates stay on record)
AtExit(r) ==
    [r EXCEPT !.work = <<>>,
              !.allTmdbRecs = <<>>, !.aiRecs = <<>>, !.allRecs = <<>>,
              !.seen = {}, !.toAdd = <<>>]

Returns(r) == [pc |-> "returned", r |-> AtExit(r)]
Throws(r)  == [pc |-> "thrown", r |-> AtExit(r)]
Awaits(where, r) == [pc |-> where, r |-> r]

\* A promise that settled is taken by its awaiter (a microtask) before the
\* event loop starts another handler or continuation
Turn(c, at) ==
    /\ pc[c] = at
    /\ \A d \in Callers : pc[d] \notin Settled

\* One step of invocation c ends in out: its locals, where it waits next, and
\* the flag when the step left the function
Step(c, out) ==
    /\ pc' = [pc EXCEPT ![c] = out.pc]
    /\ run' = [run EXCEPT ![c] = out.r]
    /\ isRunning' = IF out.pc \in Ended THEN FlagAfterExit(out.pc) ELSE isRunning

\* app/api/engine/route.ts, lines 5-20: POST reads the flag, answers 409 when
\* it is set, and otherwise awaits the request body before it calls the
\* engine (line 22, the continuation "body" of Call)
Post(c) ==
    /\ Turn(c, "idle")
    /\ c \in env.posters
    /\ callsLeft[c] > 0
    /\ callsLeft' = [callsLeft EXCEPT ![c] = @ - 1]
    /\ pc' = [pc EXCEPT ![c] = IF isRunning THEN "conflict" ELSE "body"]
    /\ UNCHANGED <<isRunning, run, recs, radarrLib, sonarrLib, env, settings>>

\* Lines 192-220: the guard, the flag, the first log line, the Radarr request.
\* The engine is called directly, or by POST once the body is read.
Call(c) ==
    /\ \/ /\ Turn(c, "idle")
          /\ c \notin env.approvers \cup env.posters
          /\ callsLeft[c] > 0
          /\ callsLeft' = [callsLeft EXCEPT ![c] = @ - 1]
       \/ /\ Turn(c, "body")
          /\ UNCHANGED callsLeft
    /\ \E f \in env.filters, dbOk \in BOOLEAN :
          IF GuardRejects(isRunning)
          THEN /\ pc' = [pc EXCEPT ![c] = "rejected"]
               /\ run' = [run EXCEPT ![c] = [EmptyRun EXCEPT !.obs.sawRunning = isRunning]]
               /\ UNCHANGED isRunning
          ELSE LET r == [EmptyRun EXCEPT !.filters = f, !.obs.sawRunning = isRunning]
               IN  IF dbOk
                   THEN /\ pc' = [pc EXCEPT ![c] = "radarr"]
                        /\ run' = [run EXCEPT ![c] = r]
                        /\ isRunning' = TRUE
                   ELSE Step(c, Throws(r))
    /\ UNCHANGED <<recs, radarrLib, sonarrLib, env, settings>>

\* The caller has taken the result or the error of its call
Settle(c) ==
    /\ pc[c] \in Settled
    /\ pc' = [pc EXCEPT ![c] = "idle"]
    /\ run' = [run EXCEPT ![c] = EmptyRun]
    /\ UNCHANGED <<isRunning, recs, radarrLib, sonarrLib, callsLeft, env, settings>>

\* Lines 220-231: getAllRadarrMovies answers or fails; the Sonarr request
RadarrSets_Kept(lib, movies) == lib

RadarrSets(lib, movies) ==
    [lib EXCEPT !.radarrTmdbIds = {m.tmdbId : m \in {x \in movies : x.tmdbId # 0}},
                !.radarrTitles = {toLowerCase(m.title) : m \in movies}]

RadarrListed(c) ==
    /\ Turn(c, "radarr")
    /\ \E answered \in BOOLEAN, dbOk \in BOOLEAN :
          LET r == IF answered
                   THEN [run[c] EXCEPT !.library = RadarrSets(@, radarrLib)]
                   ELSE [run[c] EXCEPT !.obs.unlisted = @ \cup {"radarr"}]
          IN  Step(c, IF dbOk THEN Awaits("sonarr", r) ELSE Throws(r))
    /\ UNCHANGED <<recs, radarrLib, sonarrLib, callsLeft, env, settings>>

\* Lines 231-247: getAllSonarrSeries answers or fails; the connector is made
\* (it throws for an unsupported media server type); the history request
SonarrSets(lib, series) ==
    [lib EXCEPT !.sonarrTvdbIds = {x.tvdbId : x \in {y \in series : y.tvdbId # 0}},
                !.sonarrTitles = {toLowerCase(x.title) : x \in series}]

SonarrListed(c) ==
    /\ Turn(c, "sonarr")
    /\ \E answered \in BOOLEAN, dbOk \in BOOLEAN, connector \in BOOLEAN :
          LET r == IF answered
                   THEN [run[c] EXCEPT !.library = SonarrSets(@, sonarrLib)]
                   ELSE [run[c] EXCEPT !.obs.unlisted = @ \cup {"sonarr"}]
          IN  Step(c, IF dbOk /\ connector THEN Awaits("history", r) ELSE Throws(r))
    /\ UNCHANGED <<recs, radarrLib, sonarrLib, callsLeft, env, settings>>

\* `Math.min(watchHistory.length, 10)` and `filteredHistory.slice(0, 10)`
BudgetItems == 10
HistoryCap == 10

\* Lines 271-277: the working history of the per-item requests
FilteredHistory_Whole(history, filters) == history

FilteredHistory(history, filters) ==
    IF filters.present /\ filters.mediaType # "" /\ filters.mediaType # "all"
    THEN LET kept == SelectSeq(history, LAMBDA w : w.mediaType = filters.mediaType)
         IN  IF kept = <<>> THEN history ELSE kept
    ELSE history

\* Line 289: whether discoverByFilters is called
WantsDiscovery(filters) ==
    /\ filters.present
    /\ \/ Len(filters.genres) > 0
       \/ filters.yearMin # 0
       \/ filters.yearMax # 0
       \/ (filters.mediaType # "" /\ filters.mediaType # "all")

\* Line 327: the key of the merge
DedupKey_WithKind(rec) ==
    IF rec.tmdbId # 0 THEN [tmdb |-> rec.tmdbId, title |-> <<rec.mediaType>>]
    ELSE [tmdb |-> 0, title |-> toLowerCase(rec.title)]

DedupKey(rec) ==
    IF rec.tmdbId # 0 THEN [tmdb |-> rec.tmdbId, title |-> <<>>]
    ELSE [tmdb |-> 0, title |-> toLowerCase(rec.title)]

\* The inline GENRE_MAP of lines 346-356: unknown ids are dropped
EngineGenres(ids) ==
    LET named == [i \in DOMAIN ids |-> GenreName(ids[i])]
    IN  SelectSeq(named, LAMBDA g : g # <<>>)

\* searchTmdb answering null
NoResult ==
    [id |-> 0, title |-> <<>>, year |-> 0, poster_path |-> FALSE,
     genre_ids |-> <<>>, original_language |-> <<>>]

\* Lines 331-377: first is the answer to the search made for a candidate
\* without tmdbId, second the answer to the search made when the poster is
\* still missing
Enrich(rec, first, second) ==
    IF rec.poster /\ rec.tmdbId # 0 THEN rec
    ELSE LET tmdbResult == IF rec.tmdbId # 0 THEN NoResult ELSE first
             a == IF tmdbResult.id = 0 THEN rec
                  ELSE [rec EXCEPT
                          !.tmdbId = tmdbResult.id,
                          !.poster = rec.poster \/ tmdbResult.poster_path,
                          !.genres = IF Len(rec.genres) > 0 THEN rec.genres
                                     ELSE EngineGenres(tmdbResult.genre_ids),
                          !.year = IF rec.year # 0 THEN rec.year ELSE tmdbResult.year]
         IN  IF ~a.poster /\ a.tmdbId # 0 /\ second.id # 0 /\ second.poster_path
             THEN [a EXCEPT !.poster = TRUE]
             ELSE a

\* Lines 390-397: the TVDB id of a series candidate, tvdb answered by TMDb
ResolveTvdb(rec, tvdb) ==
    IF rec.mediaType = "series" /\ rec.tvdbId = 0 /\ rec.tmdbId # 0
    THEN [rec EXCEPT !.tvdbId = tvdb]
    ELSE rec

\* Lines 379-409
InLibrary(rec, library) ==
    LET titleLower == toLowerCase(rec.title)
    IN  \/ /\ rec.mediaType = "movie"
           /\ \/ (rec.tmdbId # 0 /\ rec.tmdbId \in library.radarrTmdbIds)
              \/ titleLower \in library.radarrTitles
        \/ /\ rec.mediaType = "series"
           /\ \/ (rec.tvdbId # 0 /\ rec.tvdbId \in library.sonarrTvdbIds)
              \/ titleLower \in library.sonarrTitles

Watched(rec, library) == toLowerCase(rec.title) \in library.watchedTitles

\* (a check that leaves the watch history out)
AlreadyExists_LibraryOnly(rec, library) == InLibrary(rec, library)
AlreadyExists(rec, library) == InLibrary(rec, library) \/ Watched(rec, library)

\* Lines 418-426
MatchesGenre(rec, filters) ==
    \/ Len(filters.genres) = 0
    \/ \E i \in DOMAIN filters.genres :
          toLowerCase(filters.genres[i]) \in
              {toLowerCase(rec.genres[j]) : j \in DOMAIN rec.genres}

\* Lines 427-433
MatchesLanguage(rec, filters) ==
    \/ filters.language = <<>>
    \/ filters.language = all
    \/ (rec.language # <<>> /\ toLowerCase(rec.language) = toLowerCase(filters.language))

\* Lines 435-445
\* (a year test without the lower bound)
MatchesYear_MaxOnly(rec, filters) ==
    \/ rec.year = 0
    \/ filters.yearMax = 0
    \/ rec.year <= filters.yearMax
MatchesYear(rec, filters) ==
    \/ rec.year = 0
    \/ /\ (filters.yearMin = 0 \/ rec.year >= filters.yearMin)
       /\ (filters.yearMax = 0 \/ rec.year <= filters.yearMax)

\* Lines 446-450
MatchesMediaType(rec, filters) ==
    \/ filters.mediaType = ""
    \/ filters.mediaType = "all"
    \/ rec.mediaType = filters.mediaType

\* Lines 416-451
PassesFilters(rec, filters) ==
    \/ ~filters.present
    \/ /\ MatchesGenre(rec, filters)
       /\ MatchesLanguage(rec, filters)
       /\ MatchesYear(rec, filters)
       /\ MatchesMediaType(rec, filters)

----------------------------------------------------------------------------
(* lib/radarr.ts and lib/sonarr.ts: the add operations *)

\* The title Radarr's and Sonarr's own metadata lookup gives for a native id
MovieTitle(tmdbId) == IF tmdbId = 1 THEN Dune ELSE Heat
SeriesTitle(tvdbId) == IF tvdbId = 7 THEN Lost ELSE Heat

\* What the target answers to the requests of one add: whether the existence
\* request is answered, whether the lookup finds metadata, whether the POST
\* is accepted
AddAnswers == [checked : BOOLEAN, found : BOOLEAN, posted : BOOLEAN]

\* checkMovieExists / checkSeriesExists: a failed request counts as absent
Exists(ids, id, ans) == ans.checked /\ id \in ids

\* addMovieToRadarr / addSeriesToSonarr on the ids the target holds.
\* outcome: what the function returns; threw: it threw instead, because the
\* log line it writes failed; created: the POST was accepted
AddOutcome(ids, id, ans, dbOk) ==
    IF Exists(ids, id, ans)
    THEN [outcome |-> "exists", threw |-> ~dbOk, created |-> FALSE]
    ELSE IF ~ans.found
    THEN [outcome |-> "notfound", threw |-> FALSE, created |-> FALSE]
    ELSE IF ans.posted
    THEN [outcome |-> "added", threw |-> ~dbOk, created |-> TRUE]
    ELSE [outcome |-> "failed", threw |-> ~dbOk, created |-> FALSE]

\* `if (result.success)` / `if (res.success)` before the row is marked
MarksAdded_UnlessThrown(res) == ~res.threw
MarksAdded(res) == res.outcome = "added" /\ ~res.threw

RadarrIds(lib) == {m.tmdbId : m \in lib}
SonarrIds(lib) == {x.tvdbId : x \in lib}

----------------------------------------------------------------------------
(* runRecommendationEngine, continued: what one step runs through after its *)
(* request is answered, up to the next request or the exit.  dbOk: the      *)
(* database takes the writes of this step (addLog, addRecommendation,       *)
(* updateRecommendationStatus); aiEnabled, autoAdd: what getConfig reads.   *)

PushError(r, msg) == [r EXCEPT !.result.errors = Append(@, msg)]

\* Lines 486-492
Finish(r, dbOk) == IF dbOk THEN Returns(r) ELSE Throws(r)

\* Line 466 and 472: whether the loop makes an add call for rec
MakesAddCall(rec) ==
    \/ (rec.mediaType = "movie" /\ rec.tmdbId # 0)
    \/ (rec.mediaType = "series" /\ rec.tvdbId # 0)

RECURSIVE SkipUncalled(_)
SkipUncalled(todo) ==
    IF todo = <<>> \/ MakesAddCall(Head(todo)) THEN todo ELSE SkipUncalled(Tail(todo))

\* Lines 464-484: on to the next candidate that makes an add call
NextAdd(r, dbOk) ==
    LET todo == SkipUncalled(r.toAdd)
    IN  IF todo = <<>> THEN Finish([r EXCEPT !.toAdd = <<>>], dbOk)
        ELSE Awaits("autoadd", [r EXCEPT !.toAdd = todo, !.obs.add = @ + 1])

\* Lines 458-464
AfterMerge(r, dbOk, autoAdd) ==
    LET r1 == [r EXCEPT !.result.totalNew = Len(r.uniqueRecs)]
    IN  IF ~dbOk THEN Throws(r1)
        ELSE IF autoAdd
        THEN NextAdd([r1 EXCEPT !.toAdd = r.uniqueRecs, !.obs.autoAdd = TRUE], dbOk)
        ELSE Finish(r1, dbOk)

\* Lines 321-326
BeginMerge(r, dbOk, autoAdd) ==
    LET r1 == [r EXCEPT !.allRecs = r.allTmdbRecs \o r.aiRecs]
    IN  IF r1.allRecs = <<>> THEN AfterMerge(r1, dbOk, autoAdd)
        ELSE Awaits("merge", r1)

\* Lines 305-313
AfterDiscover(r, dbOk, aiEnabled, autoAdd) ==
    LET r1 == [r EXCEPT !.result.tmdbRecommendations = Len(r.allTmdbRecs)]
    IN  IF ~dbOk THEN Throws(r1)
        ELSE IF aiEnabled THEN Awaits("ai", [r1 EXCEPT !.obs.recommender = @ + 1])
        ELSE BeginMerge(r1, dbOk, autoAdd)

\* Lines 288-292
AfterItems(r, dbOk, aiEnabled, autoAdd) ==
    IF WantsDiscovery(r.filters)
    THEN IF dbOk THEN Awaits("discover", [r EXCEPT !.obs.recommender = @ + 1])
         ELSE AfterDiscover(PushError(r, "discover"), dbOk, aiEnabled, autoAdd)
    ELSE AfterDiscover(r, dbOk, aiEnabled, autoAdd)

\* Lines 279-286: on to the next item of the working history
NextItem(r, dbOk, aiEnabled, autoAdd) ==
    IF r.work = <<>> THEN AfterItems(r, dbOk, aiEnabled, autoAdd)
    ELSE Awaits("items", [r EXCEPT !.obs.recommender = @ + 1])

----------------------------------------------------------------------------
(* runRecommendationEngine: the steps *)

WatchedTitles(history) == {toLowerCase(history[i].title) : i \in DOMAIN history}

\* Lines 247-281: the history request fails, or answers with history
HistoryFailed(r, dbOk) ==
    LET r1 == PushError([r EXCEPT !.obs.history = "failed"], "history")
    IN  IF dbOk THEN Returns(r1) ELSE Throws(r1)

HistoryAnswered(r, history, dbOk, maxPerRun, aiEnabled, autoAdd) ==
    LET r1 == [r EXCEPT !.result.watchedCount = Len(history),
                        !.library.watchedTitles = WatchedTitles(history),
                        !.obs.history = IF history = <<>> THEN "empty" ELSE "ok"]
    IN  IF ~dbOk THEN Throws(PushError(r1, "history"))
        ELSE IF Len(history) = 0 THEN Returns(r1)
        ELSE NextItem(
                [r1 EXCEPT !.maxPerRun = maxPerRun,
                           !.maxPerItem = CeilDiv(maxPerRun, Min(Len(history), BudgetItems)),
                           !.work = Slice(FilteredHistory(history, r.filters), HistoryCap)],
                dbOk, aiEnabled, autoAdd)

HistoryFetched(c) ==
    /\ Turn(c, "history")
    /\ \E out \in
          {HistoryFailed(run[c], dbOk) : dbOk \in BOOLEAN} \cup
          {HistoryAnswered(run[c], history, dbOk, maxPerRun, aiEnabled, autoAdd) :
              history \in SeqsUpTo(env.watched, env.cap) \cup env.long,
              dbOk \in BOOLEAN,
              maxPerRun \in PerRunChoices, aiEnabled \in BOOLEAN, autoAdd \in BOOLEAN} :
          Step(c, out)
    /\ UNCHANGED <<recs, radarrLib, sonarrLib, callsLeft, env, settings>>

\* The answers of one recommender request: lists of results; a run is
\* answered with at most env.cap candidates in all
Room(r) == env.cap - (Len(r.allTmdbRecs) + Len(r.aiRecs))

ResultLists(n) == SeqsUpTo(env.results, n)

\* Lines 281-286: getRecommendationsForItem for the first item of the working
\* history rejects, or answers.  It rejects only when a log write in it
\* throws; requests that fail on the network are caught in tmdb.ts (49-52,
\* 63-66, 76-79) and answer null or [], so the item yields no candidate.
\* Such an outage leaves the run as an empty answer does; it is told apart
\* from one (obs.netFailed) in the worlds with outages.
ItemAnswered(r, item, foundId, recommended, similar) ==
    [r EXCEPT !.allTmdbRecs = @ \o
        getRecommendationsForItem(item, r.maxPerItem, foundId, recommended, similar),
              !.obs.lists = IF env.raw THEN recommended \o similar ELSE <<>>]

ItemRecs(c) ==
    /\ Turn(c, "items")
    /\ LET r == [run[c] EXCEPT !.work = Tail(@)]
           item == Head(run[c].work)
           down == [r EXCEPT !.obs.netFailed = @ + 1]
           dropped == IF env.outages
                      THEN {PushError(down, "tmdb"), ItemAnswered(down, item, 0, <<>>, <<>>)}
                      ELSE {}
           after == {PushError(r, "tmdb")} \cup dropped \cup
                    {ItemAnswered(r, item, foundId, lists[1], lists[2]) :
                        foundId \in {0, 1},
                        lists \in {l \in ResultLists(Room(r)) \X ResultLists(Room(r)) :
                                      Len(l[1]) + Len(l[2]) <= Room(r)}}
       IN  \E out \in {NextItem(q, dbOk, aiEnabled, autoAdd) :
                          q \in after, dbOk \in BOOLEAN,
                          aiEnabled \in BOOLEAN, autoAdd \in BOOLEAN} :
              Step(c, out)
    /\ UNCHANGED <<recs, radarrLib, sonarrLib, callsLeft, env, settings>>

\* discoverByFilters: per kind it queries, the first ceil(maxResults / kinds)
\* results, converted
RECURSIVE Discovered(_, _, _)
Discovered(types, answers, perType) ==
    IF types = <<>> THEN <<>>
    ELSE LET kept == Slice(Head(answers), perType)
         IN  [i \in DOMAIN kept |->
                 tmdbResultToRecommendation(kept[i], Head(types), "tmdb",
                                            <<"filter-discovery">>)]
             \o Discovered(Tail(types), Tail(answers), perType)

\* Lines 292-303: discoverByFilters rejects, or answers.  Each kind is
\* queried in its own try (tmdb.ts 203-245): a query that fails on the
\* network contributes nothing, and discoverByFilters rejects only when a
\* log write of a kind throws, at the first kind, or at the second after the
\* first was answered.  A failed query leaves the run as an empty answer
\* does; it is told apart from one in the worlds with outages.
DiscoverAnswered(c) ==
    /\ Turn(c, "discover")
    /\ LET r == run[c]
           types == DiscoverTypes(r.filters)
           perType == CeilDiv(r.maxPerRun, Len(types))
           Answered(answers, failed) ==
               LET found == Discovered(types, answers, perType)
               IN  [r EXCEPT !.allTmdbRecs = @ \o found,
                             !.obs.queried = Range(types),
                             !.obs.dropped = failed,
                             !.obs.found = Len(found)]
           rejected ==
               {[r EXCEPT !.obs.queried = {Head(types)},
                          !.obs.dropped = IF env.outages THEN {Head(types)} ELSE {}]}
               \cup (IF Len(types) > 1 /\ env.outages /\ Room(r) > 0
                     THEN {[r EXCEPT !.obs.queried = Range(types),
                                     !.obs.dropped = {types[Len(types)]},
                                     !.obs.found = 1]}
                     ELSE {})
           outcomes ==
               {o \in [1..Len(types) -> ResultLists(Room(r))]
                       \X (IF env.outages THEN SUBSET Range(types) ELSE {{}}) :
                   /\ Len(o[1][1]) + Len(o[1][Len(types)]) <= Room(r) \/ Len(types) = 1
                   /\ \A k \in DOMAIN types : types[k] \in o[2] => o[1][k] = <<>>}
           after == {PushError(q, "discover") : q \in rejected} \cup
                    {Answered(o[1], o[2]) : o \in outcomes}
       IN  \E out \in {AfterDiscover(q, dbOk, aiEnabled, autoAdd) :
                          q \in after, dbOk \in BOOLEAN,
                          aiEnabled \in BOOLEAN, autoAdd \in BOOLEAN} :
              Step(c, out)
    /\ UNCHANGED <<recs, radarrLib, sonarrLib, callsLeft, env, settings>>

\* Lines 313-319: getAiRecommendations rejects, or answers; a failed log line
\* after the answer adds an error and keeps the answer
AiAnswer(r, items, dbOk) ==
    LET r1 == [r EXCEPT
                 !.aiRecs = [i \in DOMAIN items |-> AiToRecommendation(items[i])],
                 !.result.aiRecommendations = Len(items)]
    IN  IF dbOk THEN r1 ELSE PushError(r1, "ai")

AiAnswered(c) ==
    /\ Turn(c, "ai")
    /\ LET r == run[c]
       IN  \E out \in
              {BeginMerge(PushError(r, "ai"), dbOk, autoAdd) :
                  dbOk \in BOOLEAN, autoAdd \in BOOLEAN} \cup
              {BeginMerge(AiAnswer(r, items, dbOk), dbOk, autoAdd) :
                  items \in SeqsUpTo(env.ai, Room(r)),
                  dbOk \in BOOLEAN, autoAdd \in BOOLEAN} :
              Step(c, out)
    /\ UNCHANGED <<recs, radarrLib, sonarrLib, callsLeft, env, settings>>

SearchAnswers == {NoResult} \cup env.results

\* Lines 326-456 for the first candidate of allRecs: the merge key, the
\* enrichment, the library and history check, the filters, the save.  A
\* candidate without a title throws where its title is lower-cased.  The
\* outcome is the step's end and the table afterwards.  down: the searches
\* of the enrichment failed on the network (searchTmdb answers null, tmdb.ts
\* 49-52), which is told apart from an empty answer in the worlds with
\* outages.
Candidate(r0, table, dbOk, autoAdd, first, second, tvdb, down) ==
    LET r == [r0 EXCEPT !.allRecs = Tail(@)]
        rec0 == Head(r0.allRecs)
        next(q) == IF q.allRecs = <<>> THEN AfterMerge(q, dbOk, autoAdd)
                   ELSE Awaits("merge", q)
        r1 == [r EXCEPT !.seen = @ \cup {DedupKey(rec0)},
                        !.obs.kept = Append(@, Len(r0.allTmdbRecs) + Len(r0.aiRecs)
                                                 - Len(r0.allRecs) + 1),
                        !.obs.searchDown =
                            IF down /\ (rec0.tmdbId = 0 \/ ~rec0.poster)
                            THEN @ + 1 ELSE @]
        rec == ResolveTvdb(Enrich(rec0, first, second), tvdb)
    IN  IF rec0.tmdbId = 0 /\ ~rec0.titled
        THEN [end |-> Throws(r), table |-> table]
        ELSE IF DedupKey(rec0) \in r.seen
        THEN [end |-> next(r), table |-> table]
        ELSE IF ~rec.titled \/ ~dbOk
        THEN [end |-> Throws(r1), table |-> table]
        ELSE IF AlreadyExists(rec, r1.library)
        THEN [end |-> next([r1 EXCEPT !.obs.skipped = @ + 1]), table |-> table]
        ELSE IF ~PassesFilters(rec, r1.filters)
        THEN [end |-> next([r1 EXCEPT !.obs.filtered = @ + 1]), table |-> table]
        ELSE [end |-> next([r1 EXCEPT !.uniqueRecs = Append(@, rec),
                                      !.obs.persist = @ + 1,
                                      !.obs.existing =
                                          IF addRecommendation(table, rec).table = table
                                          THEN @ + 1 ELSE @]),
              table |-> addRecommendation(table, rec).table]

ProcessCandidate(c) ==
    /\ Turn(c, "merge")
    /\ \E o \in {Candidate(run[c], recs, dbOk, autoAdd, first, second, tvdb, FALSE) :
                    dbOk \in BOOLEAN, autoAdd \in BOOLEAN,
                    first \in SearchAnswers, second \in SearchAnswers,
                    tvdb \in env.tvdb}
                 \cup
                 {Candidate(run[c], recs, dbOk, autoAdd, NoResult, NoResult, tvdb, TRUE) :
                    dbOk \in {b \in BOOLEAN : env.outages}, autoAdd \in BOOLEAN,
                    tvdb \in env.tvdb} :
          /\ Step(c, o.end)
          /\ recs' = o.table
    /\ UNCHANGED <<radarrLib, sonarrLib, callsLeft, env, settings>>

\* Lines 464-482 for the first candidate of the loop: its add call is
\* answered.  rec.id is the id the candidate carries, which addRecommendation
\* did not set (line 454 drops the record it returns), so line 468 / 474
\* binds undefined to "WHERE id = ?".  binds: the driver takes the value as
\* NULL and the statement matches no row; otherwise it throws a TypeError,
\* which line 479 catches before addedToArr is counted.
AutoAdd(c) ==
    /\ Turn(c, "autoadd")
    /\ \E dbOk \in BOOLEAN, ans \in AddAnswers, binds \in BOOLEAN :
          LET rec == Head(run[c].toAdd)
              movie == rec.mediaType = "movie"
              held == IF movie THEN rec.tmdbId \in RadarrIds(radarrLib)
                      ELSE rec.tvdbId \in SonarrIds(sonarrLib)
              res == IF movie THEN AddOutcome(RadarrIds(radarrLib), rec.tmdbId, ans, dbOk)
                     ELSE AddOutcome(SonarrIds(sonarrLib), rec.tvdbId, ans, dbOk)
              success == MarksAdded(res)
              updated == success /\ (rec.id # 0 \/ binds)
              r == [run[c] EXCEPT
                      !.toAdd = Tail(@),
                      !.obs.addOk = IF success THEN @ + 1 ELSE @,
                      !.obs.addNotOk = IF success THEN @ ELSE @ + 1,
                      !.obs.added = IF success THEN @ \cup {rec} ELSE @,
                      !.obs.sentHeld = @ \/ (held /\ res.outcome \in {"added", "failed"}),
                      !.result.addedToArr = IF updated THEN @ + 1 ELSE @,
                      !.result.errors = IF res.threw \/ (success /\ ~updated)
                                        THEN Append(@, "add") ELSE @]
          IN  /\ radarrLib' = IF movie /\ res.created
                              THEN radarrLib \cup {[tmdbId |-> rec.tmdbId,
                                                    title |-> MovieTitle(rec.tmdbId)]}
                              ELSE radarrLib
              /\ sonarrLib' = IF ~movie /\ res.created
                              THEN sonarrLib \cup {[tvdbId |-> rec.tvdbId,
                                                    title |-> SeriesTitle(rec.tvdbId)]}
                              ELSE sonarrLib
              /\ recs' = IF updated THEN updateRecommendationStatus(recs, rec.id, "added")
                         ELSE recs
              /\ Step(c, NextAdd(r, dbOk))
    /\ UNCHANGED <<callsLeft, env, settings>>

----------------------------------------------------------------------------
(* lib/engine.ts: approveAndAdd *)

\* getRecommendations(): SELECT ... ORDER BY created_at DESC LIMIT 50, the
\* newest rows
RecLimit == 50

getRecommendations(table) ==
    SubSeq(table, IF Len(table) > RecLimit THEN Len(table) - RecLimit + 1 ELSE 1,
           Len(table))

\* getRecommendations(status): ... WHERE status = ? ORDER BY created_at DESC
\* LIMIT 50, the newest rows of that status
getRecommendationsByStatus(table, status) ==
    getRecommendations(SelectSeq(table, LAMBDA row : row.status = status))

\* String.prototype.includes
Includes(s, t) ==
    \E i \in 0..(Len(s) - Len(t)) : SubSeq(s, i + 1, i + Len(t)) = t

He == <<"H", "e">>

\* The longest list a title lookup answers with
MaxLookup == 2

\* What /movie/lookup and /series/lookup answer a term with: title and the
\* id the target knows the title by (0: none)
LookupResults ==
    { [title |-> <<"H", "E", "a", "t">>, id |-> 5], [title |-> He, id |-> 8],
      [title |-> Lost, id |-> 7], [title |-> Heat, id |-> 0] }

\* searchResults.find(title equal, lower-cased), else the first result when
\* one title includes the other; <<>> when neither
Match(results, title) ==
    LET equal == {i \in DOMAIN results :
                     toLowerCase(results[i].title) = toLowerCase(title)}
        first == toLowerCase(results[1].title)
    IN  IF equal # {}
        THEN <<results[CHOOSE i \in equal : \A j \in equal : i <= j]>>
        ELSE IF results # <<>> /\ (Includes(first, toLowerCase(title))
                                    \/ Includes(toLowerCase(title), first))
        THEN <<results[1]>>
        ELSE <<>>

Replies(r, success, message) ==
    [pc |-> "replied",
     r |-> [r EXCEPT !.approve.success = success, !.approve.message = message]]

Rejects(r) == [pc |-> "failed", r |-> r]

CommitStep(c, out) ==
    /\ pc' = [pc EXCEPT ![c] = out.pc]
    /\ run' = [run EXCEPT ![c] = out.r]

\* Lines 509-517 and 578-580: the rows are read (outside the try), the row is
\* found, the title lookup is requested
Found(r, table, id, readOk) ==
    LET rows == getRecommendations(table)
        hits == {i \in DOMAIN rows : rows[i].id = id}
        row == rows[CHOOSE i \in hits : TRUE]
    IN  IF ~readOk THEN Rejects(r)
        ELSE IF hits = {} THEN Replies(r, FALSE, "not found")
        ELSE Awaits("lookup",
                [r EXCEPT !.approve.mediaType = row.mediaType,
                          !.approve.status = row.status,
                          !.approve.title = row.title,
                          !.approve.tmdbId = row.tmdbId,
                          !.approve.tvdbId = row.tvdbId])

Approve(c) ==
    /\ Turn(c, "idle")
    /\ c \in env.approvers
    /\ callsLeft[c] > 0
    /\ callsLeft' = [callsLeft EXCEPT ![c] = @ - 1]
    /\ \E id \in 1..(Len(recs) + 1), readOk \in BOOLEAN :
          CommitStep(c, Found([EmptyRun EXCEPT !.approve.id = id], recs, id, readOk))
    /\ UNCHANGED <<isRunning, recs, radarrLib, sonarrLib, env, settings>>

\* Lines 518-566 and 581-630: the lookup is answered (a failed request is
\* logged and answers nothing); the match decides the id of the add call
Chosen(r0, answered, results, dbOk) ==
    LET a == r0.approve
        m == IF answered THEN Match(results, a.title) ELSE <<>>
        r == [r0 EXCEPT
                !.approve.zero = answered /\ results = <<>>,
                !.approve.results = IF answered /\ env.ladder THEN results ELSE <<>>,
                !.approve.exactIds =
                    IF answered
                    THEN {results[i].id : i \in
                            {j \in DOMAIN results :
                                /\ results[j].id # 0
                                /\ toLowerCase(results[j].title) = toLowerCase(a.title)}}
                    ELSE {}]
        add(id) == Awaits("adding", [r EXCEPT !.approve.target = id,
                                              !.approve.called = TRUE])
    IN  IF ~answered /\ ~dbOk THEN Replies(r, FALSE, "error")
        ELSE IF a.mediaType = "movie"
        THEN IF m # <<>> /\ m[1].id # 0
             THEN IF dbOk THEN add(m[1].id) ELSE Replies(r, FALSE, "error")
             ELSE IF a.tmdbId # 0
             THEN IF dbOk THEN add(a.tmdbId) ELSE Replies(r, FALSE, "error")
             ELSE Replies(r, FALSE, "no match")
        ELSE IF m = <<>>
             THEN IF a.tvdbId # 0 THEN add(a.tvdbId)
                  ELSE Replies(r, FALSE, "no match")
             ELSE IF m[1].id = 0 THEN Replies(r, FALSE, "no tvdb id")
             ELSE IF dbOk THEN add(m[1].id) ELSE Replies(r, FALSE, "error")

\* The add call sends its existence request (radarr.ts 104, sonarr.ts 103)
\* in the step that makes the call
LookedUp(c) ==
    /\ Turn(c, "lookup")
    /\ \E out \in {Chosen(run[c], answered, results, dbOk) :
                      answered \in BOOLEAN, dbOk \in BOOLEAN,
                      results \in SeqsUpTo(LookupResults, MaxLookup)} :
          LET ids == IF out.r.approve.mediaType = "movie" THEN RadarrIds(radarrLib)
                     ELSE SonarrIds(sonarrLib)
          IN  CommitStep(c, IF out.pc = "adding"
                            THEN [out EXCEPT !.r.approve.heldAtCall =
                                                 out.r.approve.target \in ids]
                            ELSE out)
    /\ UNCHANGED <<isRunning, recs, radarrLib, sonarrLib, callsLeft, env, settings>>

\* Lines 547-556, 567-576, 604-613 and 625-635: the add call is answered; the
\* row is marked on success; an error thrown on the way is caught (641-643).
\* The existence request of the call was answered at some moment between
\* the call and its create request: from what the target held at the call,
\* or from what it holds by now (the targets only gain entries).
Committed(c) ==
    /\ Turn(c, "adding")
    /\ \E dbOk \in BOOLEAN, ans \in AddAnswers, fresh \in BOOLEAN :
          LET a == run[c].approve
              movie == a.mediaType = "movie"
              ids == IF movie THEN RadarrIds(radarrLib) ELSE SonarrIds(sonarrLib)
              known == IF fresh THEN a.target \in ids ELSE a.heldAtCall
              res == AddOutcome(IF known THEN {a.target} ELSE {}, a.target, ans, dbOk)
              success == MarksAdded(res)
          IN  /\ radarrLib' = IF movie /\ res.created
                              THEN radarrLib \cup {[tmdbId |-> a.target,
                                                    title |-> MovieTitle(a.target)]}
                              ELSE radarrLib
              /\ sonarrLib' = IF ~movie /\ res.created
                              THEN sonarrLib \cup {[tvdbId |-> a.target,
                                                    title |-> SeriesTitle(a.target)]}
                              ELSE sonarrLib
              /\ recs' = IF success THEN updateRecommendationStatus(recs, a.id, "added")
                         ELSE recs
              /\ CommitStep(c, Replies([run[c] EXCEPT
                                          !.approve.held = a.target \in ids,
                                          !.approve.found = ans.found,
                                          !.approve.sent = res.outcome \in {"added", "failed"},
                                          !.approve.created = res.created],
                                       success,
                                       IF res.threw THEN "error" ELSE res.outcome))
    /\ UNCHANGED <<isRunning, callsLeft, env, settings>>

----------------------------------------------------------------------------
(* app/api/recommendations/route.ts: PATCH *)

\* PATCH with action 'reject' or 'pending' (lines 43-49): the status of the
\* row with the id is set, whatever it was; a failed write is answered with
\* status 500 (lines 52-54).  The handler has no await after reading the
\* request, so it runs at any time no continuation is due, also while a
\* commit of the same client is under way.  Action 'approve' is Approve.
Patch(c) ==
    /\ c \in env.approvers
    /\ \A d \in Callers : pc[d] \notin Settled
    /\ \E id \in 1..(Len(recs) + 1), action \in {"reject", "pending"}, dbOk \in BOOLEAN :
          recs' = IF dbOk
                  THEN updateRecommendationStatus(
                           recs, id, IF action = "reject" THEN "rejected" ELSE "pending")
                  ELSE recs
    /\ UNCHANGED <<isRunning, pc, run, radarrLib, sonarrLib, callsLeft, env, settings>>

----------------------------------------------------------------------------
(* lib/config.ts (src/unnamed/part_002) *)

\* Two of the keys getConfig reads, in the order it reads them: radarr.url
\* (default '') and ai.model (default 'gpt-4o'), neither converted
SettingKeys == {"radarr_url", "ai_model"}

\* A value of the table, of a save and of an environment variable; "" is
\* the empty string, and stands for an absent row or variable as well
\* (`settings[key] || process.env[envKey] || defaultValue` tests both alike)
SettingValues == {"", "a", "b"}

Defaults == [k \in SettingKeys |-> IF k = "ai_model" THEN "gpt-4o" ELSE ""]

\* `const CACHE_TTL = 5000`, in milliseconds
CACHE_TTL == 5000

\* The clock advances in steps of TickMs milliseconds, MaxTicks times
TickMs == 2500
MaxTicks == 3

\* The module state after import: stored, the rows of the table; environ,
\* process.env; settingsCache (valid = FALSE is null) and settingsCacheTime;
\* now, Date.now().  What an observer records besides: config, the values
\* the last getConfig call returned; saved, the entries of the last save
\* that was stored; unread, whether no getConfig call was made since; last,
\* the operation that ran last.
NoSettings ==
    [stored |-> [k \in SettingKeys |-> ""],
     environ |-> [k \in SettingKeys |-> ""],
     settingsCache |-> [valid |-> FALSE, rows |-> [k \in SettingKeys |-> ""]],
     settingsCacheTime |-> 0,
     now |-> 0,
     config |-> [k \in SettingKeys |-> ""],
     saved |-> [k \in {} |-> ""],
     unread |-> FALSE,
     last |-> "none"]

\* loadSettings: the cache while it is younger than CACHE_TTL; else the rows
\* of the table, which become the cache; when the table cannot be read, the
\* cache of any age, or {} when there is none
loadSettings(s, readOk) ==
    IF s.settingsCache.valid /\ (s.now - s.settingsCacheTime) < CACHE_TTL
    THEN [s |-> s, rows |-> s.settingsCache.rows]
    ELSE IF readOk
    THEN [s |-> [s EXCEPT !.settingsCache = [valid |-> TRUE, rows |-> s.stored],
                          !.settingsCacheTime = s.now],
          rows |-> s.stored]
    ELSE [s |-> s,
          rows |-> IF s.settingsCache.valid THEN s.settingsCache.rows
                   ELSE [k \in SettingKeys |-> ""]]

\* getConfig: one get(key, envKey, defaultValue) per value, each with its
\* own loadSettings call; readOk[key]: the table can be read by that call
getConfig(s, readOk) ==
    LET get(t, key) ==
            LET l == loadSettings(t, readOk[key])
            IN  [s |-> l.s,
                 value |-> IF l.rows[key] # "" THEN l.rows[key]
                           ELSE IF t.environ[key] # "" THEN t.environ[key]
                           ELSE Defaults[key]]
        url == get(s, "radarr_url")
        model == get(url.s, "ai_model")
    IN  [model.s EXCEPT !.config = [k \in SettingKeys |->
                                       IF k = "radarr_url" THEN url.value
                                       ELSE model.value],
                        !.unread = FALSE,
                        !.last = "get"]

\* saveSetting / saveSettings: the entries are stored in one statement or one
\* transaction and the cache is cleared; an error is caught and logged
saveSettings(s, entries, dbOk) ==
    IF dbOk
    THEN [s EXCEPT !.stored = [k \in SettingKeys |->
                                  IF k \in DOMAIN entries THEN entries[k] ELSE @[k]],
                   !.settingsCache = NoSettings.settingsCache,
                   !.settingsCacheTime = 0,
                   !.saved = entries,
                   !.unread = TRUE,
                   !.last = "save"]
    ELSE [s EXCEPT !.last = "save"]

SaveSetting ==
    /\ \E key \in SettingKeys, value \in SettingValues, dbOk \in BOOLEAN :
          settings' = saveSettings(settings, [k \in {key} |-> value], dbOk)
    /\ UNCHANGED <<isRunning, pc, run, recs, radarrLib, sonarrLib, callsLeft, env>>

SaveSettings ==
    /\ \E keys \in SUBSET SettingKeys, dbOk \in BOOLEAN :
          \E entries \in [keys -> SettingValues] :
              settings' = saveSettings(settings, entries, dbOk)
    /\ UNCHANGED <<isRunning, pc, run, recs, radarrLib, sonarrLib, callsLeft, env>>

GetConfig ==
    /\ \E readOk \in [SettingKeys -> BOOLEAN] :
          settings' = getConfig(settings, readOk)
    /\ UNCHANGED <<isRunning, pc, run, recs, radarrLib, sonarrLib, callsLeft, env>>

\* Time passes
Tick ==
    /\ settings.now + TickMs <= MaxTicks * TickMs
    /\ settings' = [settings EXCEPT !.now = @ + TickMs, !.last = "tick"]
    /\ UNCHANGED <<isRunning, pc, run, recs, radarrLib, sonarrLib, callsLeft, env>>

----------------------------------------------------------------------------
(* Specifications *)

InitWith(calls, world) ==
    /\ isRunning = FALSE
    /\ pc = [c \in Callers |-> "idle"]
    /\ run = [c \in Callers |-> EmptyRun]
    /\ recs = <<>>
    /\ radarrLib = InitialRadarr
    /\ sonarrLib = InitialSonarr
    /\ callsLeft = calls
    /\ env = world
    /\ settings = NoSettings

Engine(c) ==
    \/ Call(c)
    \/ RadarrListed(c)
    \/ SonarrListed(c)
    \/ HistoryFetched(c)
    \/ ItemRecs(c)
    \/ DiscoverAnswered(c)
    \/ AiAnswered(c)
    \/ ProcessCandidate(c)
    \/ AutoAdd(c)
    \/ Settle(c)

Next == \E c \in Callers : Engine(c)

\* One pass through the pipeline, answered with at most cap candidates
Pipeline(cap) ==
    InitWith([c \in Callers |-> IF c = "c1" THEN 1 ELSE 0],
             [cap |-> cap, filters |-> FilterChoices, watched |-> WatchedItems,
              results |-> TmdbResults, ai |-> AiItems, tvdb |-> TvdbIds,
              approvers |-> {}, outages |-> FALSE, ladder |-> FALSE, long |-> {},
              posters |-> {}, raw |-> FALSE])

Init == Pipeline(MaxList)
Spec == Init /\ [][Next]_vars

\* The same pass when every request is eventually answered or fails, and
\* every continuation that is due is eventually run
SpecLive == Init /\ [][Next]_vars /\ WF_vars(Next)

\* One pass answered with one candidate more, for the claims about pairs of
\* candidates
InitPairs == Pipeline(MaxList + 1)
SpecPairs == InitPairs /\ [][Next]_vars

\* One pass, unfiltered or filtered to movies, over a history of up to
\* MaxList + 1 items whose catalog requests can fail on the network, every
\* candidate coming from the catalog
ItemsWorld ==
    [cap |-> MaxList + 1,
     filters |-> {f \in FilterChoices : f.genres = <<>> /\ f.mediaType # "all"},
     watched |-> WatchedItems,
     results |-> TmdbResults, ai |-> {}, tvdb |-> {0},
     approvers |-> {}, outages |-> TRUE, ladder |-> FALSE, long |-> {},
     posters |-> {}, raw |-> FALSE]

InitItems == InitWith([c \in Callers |-> IF c = "c1" THEN 1 ELSE 0], ItemsWorld)
SpecItems == InitItems /\ [][Next]_vars

\* The same pass over no history or a history of HistoryCap + 1 items,
\* movies and series in turn
LongWorld ==
    [ItemsWorld EXCEPT
        !.watched = {},
        !.outages = FALSE,
        !.long = {[k \in 1..(HistoryCap + 1) |->
                     CHOOSE w \in WatchedItems :
                         w.mediaType = IF k % 2 = 1 THEN "movie" ELSE "series"]}]

\* One pass over a history of one series, under each of the filters and a
\* filter that names a language only, the discovery queries failing or not
DiscoverWorld ==
    [ItemsWorld EXCEPT
        !.filters = FilterChoices \cup {[NoFilters EXCEPT !.present = TRUE,
                                                         !.language = EN]},
        !.watched = {w \in WatchedItems : w.mediaType = "series"},
        !.results = {t \in TmdbResults : t.id = 2}]

InitDiscover == InitWith([c \in Callers |-> IF c = "c1" THEN 1 ELSE 0], DiscoverWorld)
SpecDiscover == InitDiscover /\ [][Next]_vars

\* One pass whose candidates come from the catalog with and without a
\* poster and from the model without a catalog id, the searches of the
\* enrichment failing or not
SpecEnrich ==
    /\ InitWith([c \in Callers |-> IF c = "c1" THEN 1 ELSE 0],
                [ItemsWorld EXCEPT
                    !.watched = {w \in WatchedItems : w.mediaType = "series"},
                    !.ai = {i \in AiItems : i.titled /\ i.tmdb_id = 0}])
    /\ [][Next]_vars

\* One pass over a history of one movie, answered with up to MaxList + 2
\* catalog results in all, the result lists being kept
SpecLists ==
    /\ InitWith([c \in Callers |-> IF c = "c1" THEN 1 ELSE 0],
                [ItemsWorld EXCEPT
                    !.cap = MaxList + 2,
                    !.watched = {w \in WatchedItems : w.mediaType = "movie"},
                    !.outages = FALSE,
                    !.raw = TRUE])
    /\ [][Next]_vars

InitLong == InitWith([c \in Callers |-> IF c = "c1" THEN 1 ELSE 0], LongWorld)
SpecLong == InitLong /\ [][Next]_vars

\* Two callers, one call each, of a pass whose single candidate is a movie
\* found by discovery: passes in sequence, and calls during a pass
FlightWorld ==
    [cap |-> 1,
     filters |-> {f \in FilterChoices : f.mediaType = "movie"},
     watched |-> {w \in WatchedItems : w.mediaType = "series"},
     results |-> {t \in TmdbResults : t.id = 2},
     ai |-> {},
     tvdb |-> {0},
     approvers |-> {},
     outages |-> FALSE,
     ladder |-> FALSE,
     long |-> {},
     posters |-> {}, raw |-> FALSE]

InitFlight == InitWith([c \in Callers |-> 1], FlightWorld)
SpecFlight == InitFlight /\ [][Next]_vars

\* The same two callers, each sending one POST /api/engine
NextRoute == \E c \in Callers : Post(c) \/ Engine(c)

SpecRoute ==
    /\ InitWith([c \in Callers |-> 1], [FlightWorld EXCEPT !.posters = Callers])
    /\ [][NextRoute]_vars

\* One caller runs a pass, the other approves, rejects and resets rows of
\* the table, before, during and after the pass
Commit(c) ==
    \/ Approve(c)
    \/ LookedUp(c)
    \/ Committed(c)

NextCommit == \E c \in Callers : Engine(c) \/ Commit(c) \/ Patch(c)

CommitWorld ==
    [FlightWorld EXCEPT
        !.filters = {f \in FilterChoices : f.genres = <<>> /\ f.mediaType # "all"},
        !.ai = {i \in AiItems : i.tmdb_id = 2},
        !.tvdb = {0, 8},
        !.approvers = {"c2"}]

InitCommit == InitWith([c \in Callers |-> IF c = "c1" THEN 1 ELSE MaxApprovals],
                       CommitWorld)
SpecCommit == InitCommit /\ [][NextCommit]_vars

\* The table after n recommendations were stored by earlier runs: a movie
\* from the catalog first, then the same title-only suggestion run after run
\* (addRecommendation looks for an existing row only when there is a tmdbId,
\* so each of these is appended under the next id)
Stored(n) ==
    [k \in 1..n |->
        RowOf(IF k = 1
              THEN tmdbResultToRecommendation(
                       CHOOSE t \in TmdbResults : t.id = 2, "movie", "tmdb", Heat)
              ELSE AiToRecommendation(
                       CHOOSE i \in AiItems : i.titled /\ i.tmdb_id = 0),
              k)]

\* No pass: one commit, over a table that holds one of sizes rows
InitRows(sizes) ==
    /\ isRunning = FALSE
    /\ pc = [c \in Callers |-> "idle"]
    /\ run = [c \in Callers |-> EmptyRun]
    /\ recs \in {Stored(n) : n \in sizes}
    /\ radarrLib = InitialRadarr
    /\ sonarrLib = InitialSonarr
    /\ callsLeft = [c \in Callers |-> IF c \in CommitWorld.approvers THEN 1 ELSE 0]
    /\ env = CommitWorld
    /\ settings = NoSettings

\* Commits alone, over a table that holds as many rows as getRecommendations
\* reads, or one more
InitStore == InitRows({RecLimit, RecLimit + 1})
NextStore == \E c \in Callers : Commit(c) \/ Settle(c)
SpecStore == InitStore /\ [][NextStore]_vars

\* One pass answered with one candidate more, by a catalog that knows one
\* movie and an AI that suggests it as a series, or a title without an id
InitMerge ==
    InitWith([c \in Callers |-> IF c = "c1" THEN 1 ELSE 0],
             [FlightWorld EXCEPT
                 !.cap = MaxList + 1,
                 !.filters = {f \in FilterChoices : f.genres = <<>> /\ f.mediaType # "all"},
                 !.ai = {i \in AiItems : i.titled}])
SpecMerge == InitMerge /\ [][Next]_vars

\* The passes one caller runs in sequence
MaxRuns == 2

\* Passes in sequence over the same answers: a Radarr that holds nothing, a
\* catalog that knows one movie, and the AI suggesting one title without an
\* id, which a search may or may not resolve
InitRerun ==
    /\ isRunning = FALSE
    /\ pc = [c \in Callers |-> "idle"]
    /\ run = [c \in Callers |-> EmptyRun]
    /\ recs = <<>>
    /\ radarrLib = {}
    /\ sonarrLib = InitialSonarr
    /\ callsLeft = [c \in Callers |-> IF c = "c1" THEN MaxRuns ELSE 0]
    /\ env = [FlightWorld EXCEPT
                 !.filters = {f \in FilterChoices : f.genres = <<>> /\ f.mediaType # "all"},
                 !.ai = {i \in AiItems : i.titled /\ i.tmdb_id = 0}]
    /\ settings = NoSettings

SpecRerun == InitRerun /\ [][Next]_vars

\* The most rows of the small table
MaxRows == 2

\* A commit among rejects and resets, over a table of a few rows
\* One commit of the one row of the table, the lookup results being followed:
\* a title with or without a catalog id, as a movie and as a series with or
\* without a tvdbId
LadderRows ==
    LET heat == tmdbResultToRecommendation(
                    CHOOSE t \in TmdbResults : t.id = 2, "movie", "tmdb", Heat)
    IN  {[heat EXCEPT !.tmdbId = id] : id \in {0, 2}} \cup
        {[heat EXCEPT !.mediaType = "series", !.tvdbId = id] : id \in {0, 8}}

InitLadder ==
    /\ isRunning = FALSE
    /\ pc = [c \in Callers |-> "idle"]
    /\ run = [c \in Callers |-> EmptyRun]
    /\ recs \in {<<RowOf(rec, 1)>> : rec \in LadderRows}
    /\ radarrLib = InitialRadarr
    /\ sonarrLib = InitialSonarr
    /\ callsLeft = [c \in Callers |-> IF c \in CommitWorld.approvers THEN 1 ELSE 0]
    /\ env = [CommitWorld EXCEPT !.ladder = TRUE]
    /\ settings = NoSettings

SpecLadder == InitLadder /\ [][NextStore]_vars

\* Two clients, each approving once, over the table of one ladder row
SpecTwin ==
    /\ \E rec \in LadderRows :
          /\ isRunning = FALSE
          /\ pc = [c \in Callers |-> "idle"]
          /\ run = [c \in Callers |-> EmptyRun]
          /\ recs = <<RowOf(rec, 1)>>
          /\ radarrLib = InitialRadarr
          /\ sonarrLib = InitialSonarr
          /\ callsLeft = [c \in Callers |-> 1]
          /\ env = [CommitWorld EXCEPT !.approvers = Callers]
          /\ settings = NoSettings
    /\ [][NextStore]_vars

\* The configuration module alone, over each table it can find at import
\* and each environment
NextConfig == SaveSetting \/ SaveSettings \/ GetConfig \/ Tick

SpecConfig ==
    /\ \E stored \in [SettingKeys -> SettingValues],
          environ \in [SettingKeys -> {"", "e"}] :
          /\ isRunning = FALSE
          /\ pc = [c \in Callers |-> "idle"]
          /\ run = [c \in Callers |-> EmptyRun]
          /\ recs = <<>>
          /\ radarrLib = InitialRadarr
          /\ sonarrLib = InitialSonarr
          /\ callsLeft = [c \in Callers |-> 0]
          /\ env = FlightWorld
          /\ settings = [NoSettings EXCEPT !.stored = stored, !.environ = environ]
    /\ [][NextConfig]_vars

InitShelf == InitRows(1..MaxRows)
NextShelf == \E c \in Callers : Commit(c) \/ Patch(c) \/ Settle(c)
SpecShelf == InitShelf /\ [][NextShelf]_vars

----------------------------------------------------------------------------
(* The claims of the specification *)

Count(errors, tag) == Cardinality({i \in DOMAIN errors : errors[i] = tag})

\* C1: a call of runRecommendationEngine made while isRunning is true is
\* rejected with 'already running' without having executed any step of the
\* pass, a call that went past the guard read the flag as false, and at no
\* time are two passes in progress.
C1_SingleFlight ==
    /\ Cardinality(Passes) <= 1
    /\ \A c \in Callers :
          /\ pc[c] = "rejected" =>
                run[c] = [EmptyRun EXCEPT !.obs.sawRunning = TRUE]
          /\ pc[c] \in InPass \cup Ended => ~run[c].obs.sawRunning

\* A call is rejected while the pass of the other caller is in progress
C1_RejectedDuringPass ==
    \E c \in Callers, d \in Callers :
        pc[c] = "rejected" /\ pc[d] \in InPass /\ isRunning

\* C2: after every exit of a call that passed the guard (return, return on a
\* failed or empty history, thrown error) isRunning is false: the flag is
\* true exactly while a pass is in progress, so no call is rejected because
\* of a finished run.
C2_FlagClearedOnExit ==
    /\ isRunning <=> Passes # {}
    /\ \A c \in Callers : pc[c] \in Ended => ~isRunning

\* A pass has begun after an earlier pass saved a candidate and ended
C2_PassAfterFinishedPass ==
    \E c \in Callers : pc[c] = "radarr" /\ recs # <<>> /\ isRunning

\* C3: the candidates a run saves and counts in totalNew hold no two entries
\* with the same tmdbId, and no two entries with the same lower-cased title
\* when neither has a tmdbId, taken as they are saved (after enrichment).
C3_SavedCandidatesUnique ==
    \A c \in Callers :
        \A i \in DOMAIN run[c].uniqueRecs, j \in DOMAIN run[c].uniqueRecs :
            LET a == run[c].uniqueRecs[i]
                b == run[c].uniqueRecs[j]
            IN  i # j =>
                   /\ ~(a.tmdbId # 0 /\ a.tmdbId = b.tmdbId)
                   /\ ~(a.tmdbId = 0 /\ b.tmdbId = 0
                        /\ toLowerCase(a.title) = toLowerCase(b.title))

\* C4: no candidate is passed to addRecommendation whose id is in the
\* library snapshot's id set for its kind, or whose lower-cased title is in
\* the snapshot's title set for its kind or in the watch-history titles.
C4_KnownNeverSaved ==
    \A c \in Callers :
        /\ run[c].obs.persist = Len(run[c].uniqueRecs)
        /\ \A i \in DOMAIN run[c].uniqueRecs :
              LET rec == run[c].uniqueRecs[i]
                  lib == run[c].library
                  title == toLowerCase(rec.title)
              IN  /\ rec.mediaType = "movie" =>
                        rec.tmdbId \notin lib.radarrTmdbIds
                        /\ title \notin lib.radarrTitles
                  /\ rec.mediaType = "series" =>
                        rec.tvdbId \notin lib.sonarrTvdbIds
                        /\ title \notin lib.sonarrTitles
                  /\ title \notin lib.watchedTitles

\* A pass skipped its candidate as known and saved nothing
C4_KnownCandidateSkipped ==
    \E c \in Callers :
        /\ run[c].obs.skipped > 0
        /\ run[c].obs.persist = 0
        /\ run[c].library.radarrTitles \cup run[c].library.watchedTitles # {}

\* C5: every candidate a run saves satisfies each active filter: one of the
\* filter genres equals one of its genres, case aside; its language equals
\* the filter language, case aside, unless that is 'all'; its year, if it
\* has one, lies within [yearMin, yearMax]; its kind equals the filter's
\* mediaType unless that is 'all'.  The year predicate drops no candidate
\* without a year.
C5_SavedMatchFilters ==
    \A c \in Callers :
        LET f == run[c].filters
        IN  f.present =>
              /\ \A i \in DOMAIN run[c].uniqueRecs :
                    LET rec == run[c].uniqueRecs[i]
                    IN  /\ Len(f.genres) > 0 =>
                              \E g \in Range(f.genres), h \in Range(rec.genres) :
                                  toLowerCase(g) = toLowerCase(h)
                        /\ (f.language # <<>> /\ f.language # all) =>
                              /\ rec.language # <<>>
                              /\ toLowerCase(rec.language) = toLowerCase(f.language)
                        /\ rec.year # 0 =>
                              /\ (f.yearMin # 0 => rec.year >= f.yearMin)
                              /\ (f.yearMax # 0 => rec.year <= f.yearMax)
                        /\ f.mediaType \notin {"", "all"} =>
                              rec.mediaType = f.mediaType
              /\ \A rec \in Range(run[c].allRecs) :
                    rec.year = 0 => MatchesYear(rec, f)

\* A candidate with a year was saved by a pass whose filters bound the year
C5_SavedUnderYearFilter ==
    \E c \in Callers :
        /\ run[c].filters.present
        /\ run[c].filters.yearMin # 0
        /\ \E rec \in Range(run[c].uniqueRecs) : rec.year # 0

\* C6: a call of runRecommendationEngine made while no run is in progress
\* never throws, whichever collaborator fails.
C6_RunNeverThrows == \A c \in Callers : pc[c] # "thrown"

\* C7: approveAndAdd never throws; every call returns a {success, message}
\* value.
C7_CommitNeverThrows == \A c \in Callers : pc[c] # "failed"

\* C8: when the watch-history fetch fails the run returns at once, its errors
\* hold exactly the fetch-failure message, its counts are zero, and it has
\* called no recommender, saved no candidate and made no add call.
C8_HistoryFailureReturns ==
    \A c \in Callers :
        run[c].obs.history = "failed" =>
            /\ pc[c] = "returned"
            /\ run[c].result = [ZeroResult EXCEPT !.errors = <<"history">>]
            /\ run[c].obs.recommender = 0
            /\ run[c].obs.persist = 0
            /\ run[c].obs.add = 0

\* C9: when the watch history is empty the run returns a RunResult of zero
\* counts and no errors, and has called no recommender, saved no candidate
\* and made no add call.
C9_EmptyHistoryReturns ==
    \A c \in Callers :
        run[c].obs.history = "empty" =>
            /\ pc[c] = "returned"
            /\ run[c].result = ZeroResult
            /\ run[c].obs.recommender = 0
            /\ run[c].obs.persist = 0
            /\ run[c].obs.add = 0

\* C10: with auto-add on, the addedToArr a run returns is the number of add
\* calls that succeeded, and its errors hold one entry for each add call
\* that did not succeed.
C10_AutoAddAccounting ==
    \A c \in Callers :
        (pc[c] = "returned" /\ run[c].obs.autoAdd) =>
            /\ run[c].result.addedToArr = run[c].obs.addOk
            /\ Count(run[c].result.errors, "add") = run[c].obs.addNotOk

\* C11: with auto-commit on, when the run has returned every surviving
\* candidate whose add call returned success has a stored record with status
\* "added", and the number of stored records with status "added" equals
\* addedToArr.
C11_AddedRecordsMatchCount ==
    \A c \in Callers :
        (pc[c] = "returned" /\ run[c].obs.autoAdd) =>
            /\ \A rec \in run[c].obs.added :
                   \E i \in DOMAIN recs :
                       /\ recs[i].title = rec.title
                       /\ recs[i].mediaType = rec.mediaType
                       /\ recs[i].tmdbId = rec.tmdbId
                       /\ recs[i].status = "added"
            /\ Cardinality({i \in DOMAIN recs : recs[i].status = "added"})
                  = run[c].result.addedToArr

\* C12: whenever the title lookup of a commit returned a result whose title
\* equals the recommendation's, case aside, and which carries a native id,
\* the add call is made, with the native id of such a result and not with
\* the id the recommendation stores; an exact match anywhere in the results
\* wins over a fuzzy match on the first result.
C12_ExactMatchIdUsed ==
    \A c \in Callers :
        LET a == run[c].approve
        IN  (pc[c] \in {"adding", "replied"} /\ a.exactIds # {}) =>
                a.called /\ a.target \in a.exactIds

\* C13: a commit of a recommendation that carries only a catalog id the
\* destination does not know (it neither holds the id nor finds metadata
\* for it), whose title lookup returned no result, returns success = false
\* with a 'could not find' message, creates nothing in the destination and
\* leaves the status of the recommendation as it was read.
C13_StaleIdNotFound ==
    \A c \in Callers :
        LET a == run[c].approve
        IN  (/\ pc[c] = "replied"
             /\ a.zero
             /\ a.tmdbId # 0
             /\ a.tvdbId = 0
             /\ a.called => (~a.held /\ ~a.found)) =>
                /\ ~a.success
                /\ a.message \in {"notfound", "no match"}
                /\ ~a.created
                /\ \A i \in DOMAIN recs : recs[i].id = a.id => recs[i].status = a.status

\* C14: approveAndAdd answers 'Recommendation not found' only when no stored
\* row has the id it was called with, however many rows are stored.
C14_NotFoundOnlyWhenAbsent ==
    \A c \in Callers :
        (pc[c] = "replied" /\ run[c].approve.message = "not found") =>
            \A i \in DOMAIN recs : recs[i].id # run[c].approve.id

\* C15: 'added' is terminal: no step of an engine run, of a commit or of an
\* API action (approve, reject, reset to pending) changes the status of a
\* stored recommendation that has status 'added'.
C15_AddedIsTerminal ==
    [][\A i \in DOMAIN recs :
          recs[i].status = "added" =>
              (i \in DOMAIN recs' /\ recs'[i].status = "added")]_vars

\* C16: a stored recommendation gets status 'added' only in the step in
\* which an add call made on its behalf returned success: the step of a
\* commit of its id whose add call created the entry and answered 'added',
\* or the step of a run's auto-add whose add call for it returned success.
\* A commit answered 'already exists', not found or failed marks no row.
C16_AddedOnlyBySuccessfulAdd ==
    [][\A i \in DOMAIN recs' :
          (recs'[i].status = "added"
             /\ (i \in DOMAIN recs => recs[i].status # "added")) =>
              \E c \in Callers :
                  \/ /\ pc[c] = "adding"
                     /\ pc'[c] = "replied"
                     /\ run'[c].approve.id = recs'[i].id
                     /\ run'[c].approve.sent
                     /\ run'[c].approve.created
                     /\ run'[c].approve.message = "added"
                  \/ /\ pc[c] = "autoadd"
                     /\ run'[c].obs.addOk = run[c].obs.addOk + 1
                     /\ \E rec \in run'[c].obs.added :
                           /\ rec.title = recs'[i].title
                           /\ rec.mediaType = recs'[i].mediaType
                           /\ rec.tmdbId = recs'[i].tmdbId]_vars

\* A commit has answered success and the row it was made for is 'added'
C16_CommitMarkedRow ==
    \E c \in Callers :
        /\ pc[c] = "replied"
        /\ run[c].approve.success
        /\ \E i \in DOMAIN recs :
              recs[i].id = run[c].approve.id /\ recs[i].status = "added"

\* C17: an add call for a native id the target already holds sends no
\* create request and returns success = false with 'already exists', in a
\* commit and in a run's auto-add alike; so a second commit of a
\* recommendation creates no second entry, and returns a non-success
\* without throwing.
C17_HeldIdNotCreated ==
    \A c \in Callers :
        LET a == run[c].approve
        IN  /\ ~run[c].obs.sentHeld
            /\ (pc[c] = "replied" /\ a.called /\ a.held) =>
                  /\ ~a.sent
                  /\ ~a.created
                  /\ ~a.success
                  /\ a.message = "exists"

\* C18: for a stored recommendation in status 'pending', reject followed by
\* reset-to-pending sets its status to 'rejected' and back to 'pending',
\* changes none of its identity fields (id, title, kind, catalog id,
\* cross-reference id, source) and leaves every other record as it was; and
\* a recommendation that is persisted is read back by its status with the
\* same identity fields.
C18_RejectResetRoundTrip ==
    /\ \A i \in DOMAIN recs :
          LET rejected == updateRecommendationStatus(recs, recs[i].id, "rejected")
              reset == updateRecommendationStatus(rejected, recs[i].id, "pending")
          IN  recs[i].status = "pending" =>
                 /\ rejected[i] = [recs[i] EXCEPT !.status = "rejected"]
                 /\ \A j \in DOMAIN recs \ {i} : rejected[j] = recs[j]
                 /\ reset = recs
    /\ \A rec \in {tmdbResultToRecommendation(t, type, "tmdb", Heat) :
                      t \in TmdbResults, type \in {"movie", "series"}}
                  \cup {AiToRecommendation(item) : item \in {x \in AiItems : x.titled}} :
          LET out == addRecommendation(recs, rec)
              read == getRecommendationsByStatus(out.table, rec.status)
          IN  Len(out.table) > Len(recs) =>
                 \E k \in DOMAIN read :
                     /\ read[k].id = out.id
                     /\ read[k].title = rec.title
                     /\ read[k].mediaType = rec.mediaType
                     /\ read[k].tmdbId = rec.tmdbId
                     /\ read[k].tvdbId = rec.tvdbId
                     /\ read[k].source = rec.source

\* A row a commit read as 'rejected' has been reset and is 'pending' again,
\* beside another row that is not
C18_RejectedRowResetToPending ==
    \E c \in Callers, i \in DOMAIN recs, j \in DOMAIN recs :
        /\ run[c].approve.status = "rejected"
        /\ recs[i].id = run[c].approve.id
        /\ recs[i].status = "pending"
        /\ recs[j].status # "pending"

\* C19: the table holds at most one record per identity (the catalog id
\* when there is one, the lower-cased title otherwise) whatever runs and
\* commits have happened, so a second run with the same candidates stores
\* no second record; and no step removes a record.
C19_OneRecordPerIdentity ==
    [][/\ \A i \in DOMAIN recs : i \in DOMAIN recs' /\ recs'[i].id = recs[i].id
       /\ \A i \in DOMAIN recs', j \in DOMAIN recs' :
             i # j =>
                 /\ ~(recs'[i].tmdbId # 0 /\ recs'[i].tmdbId = recs'[j].tmdbId)
                 /\ ~(/\ recs'[i].tmdbId = 0
                      /\ recs'[j].tmdbId = 0
                      /\ toLowerCase(recs'[i].title) = toLowerCase(recs'[j].title))]_vars

\* C20: of the candidates of allRecs = [...allTmdbRecs, ...aiRecs] that
\* share an identity key (the catalog id if there is one, else the
\* lower-cased title) the merge keeps the first and drops the later ones:
\* the candidates that went past the `seen` test are, in order, those no
\* earlier candidate shares the key with, and every saved candidate has the
\* source tag, title and kind of the first occurrence of its key (stated
\* while the lists of the pass are held: during the merge and auto-add).
C20_FirstOccurrenceWins ==
    \A c \in Callers :
        LET merged == run[c].allTmdbRecs \o run[c].aiRecs
            done == Len(merged) - Len(run[c].allRecs)
            same(i, j) ==
                IF merged[i].tmdbId # 0 THEN merged[j].tmdbId = merged[i].tmdbId
                ELSE /\ merged[j].tmdbId = 0
                     /\ toLowerCase(merged[j].title) = toLowerCase(merged[i].title)
            firsts == {i \in 1..done : \A j \in 1..(i - 1) : ~same(i, j)}
            kept == run[c].obs.kept
        IN  pc[c] \in {"merge", "autoadd"} =>
               /\ Range(kept) = firsts
               /\ \A m \in DOMAIN kept, n \in DOMAIN kept : m < n => kept[m] < kept[n]
               /\ Len(run[c].uniqueRecs) <= Len(kept)
               /\ \A u \in Range(run[c].uniqueRecs) :
                     \E i \in firsts :
                         /\ merged[i].source = u.source
                         /\ merged[i].title = u.title
                         /\ merged[i].mediaType = u.mediaType

\* A catalog candidate was saved, and a later AI candidate with the same
\* catalog id was dropped by the merge
C20_LaterDuplicateDropped ==
    \E c \in Callers :
        LET merged == run[c].allTmdbRecs \o run[c].aiRecs
        IN  /\ pc[c] = "autoadd"
            /\ Len(merged) = 2
            /\ merged[1].tmdbId # 0
            /\ merged[1].tmdbId = merged[2].tmdbId
            /\ merged[1].source = "tmdb"
            /\ merged[2].source = "ai"
            /\ run[c].obs.kept = <<1>>
            /\ Len(run[c].uniqueRecs) = 1
            /\ run[c].uniqueRecs[1].source = "tmdb"

\* C21: addRecommendation of a recommendation whose (catalog id, kind) is
\* stored already inserts nothing, leaves the table as it is and returns
\* the id of the stored record, so no two stored records share a catalog id
\* and kind; updateRecommendationStatus returns true exactly when a record
\* has the id, and changes nothing but the status of that record.
C21_StoreKeepsIdentity ==
    /\ \A i \in DOMAIN recs, j \in DOMAIN recs :
          (i # j /\ recs[i].tmdbId # 0) =>
              ~(recs[i].tmdbId = recs[j].tmdbId /\ recs[i].mediaType = recs[j].mediaType)
    /\ \A rec \in {tmdbResultToRecommendation(t, type, "tmdb", Heat) :
                      t \in TmdbResults, type \in {"movie", "series"}}
                  \cup {AiToRecommendation(item) : item \in {x \in AiItems : x.titled}} :
          \A i \in DOMAIN recs :
              (rec.tmdbId # 0 /\ recs[i].tmdbId = rec.tmdbId
                 /\ recs[i].mediaType = rec.mediaType) =>
                  /\ addRecommendation(recs, rec).table = recs
                  /\ addRecommendation(recs, rec).id = recs[i].id
    /\ \A id \in 0..(Len(recs) + 1), status \in {"pending", "rejected", "added"} :
          LET after == updateRecommendationStatus(recs, id, status)
              hit == {i \in DOMAIN recs : recs[i].id = id}
          IN  /\ StatusChanged(recs, id) <=> hit # {}
              /\ DOMAIN after = DOMAIN recs
              /\ \A i \in DOMAIN recs :
                    after[i] = IF i \in hit THEN [recs[i] EXCEPT !.status = status]
                               ELSE recs[i]

\* A second run saved a candidate whose catalog id and kind the first run
\* had stored, and the table still holds the one record
C21_StoredCandidateSavedAgain ==
    \E c \in Callers :
        /\ run[c].obs.existing > 0
        /\ \E i \in DOMAIN recs, u \in Range(run[c].uniqueRecs) :
              /\ u.tmdbId # 0
              /\ recs[i].tmdbId = u.tmdbId
              /\ recs[i].mediaType = u.mediaType

\* C22: a failed log write fails neither a run nor a commit: no run ends by
\* throwing, and no commit answers with the error of a failed write in
\* place of its result.
C22_LogFailureHarmless ==
    \A c \in Callers :
        /\ pc[c] # "thrown"
        /\ ~(pc[c] = "replied" /\ run[c].approve.message = "error")

\* C23: when every external call eventually returns or fails, every run that
\* has started eventually ends with a RunResult (on completion or on the
\* fatal early return) and isRunning is false again.
C23_RunEndsWithResult ==
    \A c \in Callers :
        (pc[c] \in InPass) ~> (pc[c] = "returned" /\ ~isRunning)

\* C24: when the listing of a library target fails at the start of a run,
\* the run goes on to the later steps (it does not end before the history
\* request is answered), the id and title sets of that target stay empty,
\* the sets of the other target are those of its listing, and no error is
\* appended to RunResult.errors for the failure.
C24_ListingFailureTolerated ==
    \A c \in Callers :
        LET failed == run[c].obs.unlisted
            lib == run[c].library
        IN  failed # {} =>
               /\ pc[c] \in Ended => run[c].obs.history # "none"
               /\ pc[c] \in {"sonarr", "history"} => run[c].result.errors = <<>>
               /\ "radarr" \in failed =>
                     lib.radarrTmdbIds = {} /\ lib.radarrTitles = {}
               /\ "sonarr" \in failed =>
                     lib.sonarrTvdbIds = {} /\ lib.sonarrTitles = {}
               /\ (pc[c] = "history" /\ "radarr" \notin failed) =>
                     /\ lib.radarrTmdbIds = {m.tmdbId : m \in InitialRadarr}
                     /\ lib.radarrTitles = {toLowerCase(m.title) : m \in InitialRadarr}
               /\ (pc[c] = "history" /\ "sonarr" \notin failed) =>
                     /\ lib.sonarrTvdbIds = {x.tvdbId : x \in InitialSonarr}
                     /\ lib.sonarrTitles = {toLowerCase(x.title) : x \in InitialSonarr}

\* C25: for every processed history item whose catalog requests (search,
\* recommendations, similar) fail on the network, an error string for the
\* item is appended to RunResult.errors, and the items after it are still
\* processed.
C25_ItemFailureCollected ==
    \A c \in Callers :
        /\ Count(run[c].result.errors, "tmdb") >= run[c].obs.netFailed
        /\ (pc[c] = "items" /\ run[c].obs.netFailed > 0) => ENABLED ItemRecs(c)

\* The match of the ladder: the first result whose title equals the row's,
\* case aside; else the first result when its title contains the row's or
\* is contained in it; else none
LadderMatch(results, title) ==
    LET hits == {i \in DOMAIN results :
                    toLowerCase(results[i].title) = toLowerCase(title)}
        fits == /\ results # <<>>
                /\ \/ Includes(toLowerCase(results[1].title), toLowerCase(title))
                   \/ Includes(toLowerCase(title), toLowerCase(results[1].title))
    IN  IF hits # {} THEN {results[i] : i \in {j \in hits : \A k \in hits : j <= k}}
        ELSE IF fits THEN {results[1]}
        ELSE {}

\* C26: in a series commit whose title lookup was answered without a match
\* that carries a native series id (no results, no title match, or a match
\* without an id), a recommendation with a tvdbId is added with that tvdbId,
\* and the commit fails with a not-found message only when the
\* recommendation has no tvdbId either.
C26_SeriesFallsBackToTvdbId ==
    \A c \in Callers :
        LET a == run[c].approve
            answered == a.zero \/ a.results # <<>>
        IN  (/\ pc[c] \in {"adding", "replied"}
             /\ a.mediaType = "series"
             /\ answered
             /\ \A m \in LadderMatch(a.results, a.title) : m.id = 0) =>
               /\ a.tvdbId # 0 => a.called /\ a.target = a.tvdbId
               /\ a.tvdbId = 0 => ~a.called
               /\ (pc[c] = "replied" /\ a.message \in {"no match", "no tvdb id"}) =>
                     a.tvdbId = 0

\* C27: in a movie commit whose title lookup was answered, the match is the
\* result with the recommendation's title (case aside), else the first
\* result when one lower-cased title contains the other; when the match
\* carries a native id the add is called with it; otherwise, when the
\* recommendation has a catalog id, the add is called with that id;
\* otherwise the commit fails with 'could not find' and no add call is made.
\* The recommendation becomes 'added' exactly when the add that was made
\* succeeds.
C27_MovieLadder ==
    \A c \in Callers :
        LET a == run[c].approve
            answered == a.zero \/ a.results # <<>>
            native == {m.id : m \in LadderMatch(a.results, a.title)} \ {0}
        IN  (pc[c] \in {"adding", "replied"} /\ a.mediaType = "movie" /\ answered) =>
               /\ native # {} => a.called /\ a.target \in native
               /\ (native = {} /\ a.tmdbId # 0) => a.called /\ a.target = a.tmdbId
               /\ (native = {} /\ a.tmdbId = 0) =>
                     /\ ~a.called
                     /\ pc[c] = "replied" => ~a.success /\ a.message = "no match"
               /\ pc[c] = "replied" =>
                     (\E i \in DOMAIN recs : recs[i].id = a.id /\ recs[i].status = "added")
                         <=> (a.called /\ a.created)

\* C28: in a run whose filters set a media kind ('movie' or 'series'), the
\* working history of the per-item requests holds only history items of
\* that kind, or, when no history item has the kind, the whole history (its
\* first HistoryCap items); and every candidate the run saves has the
\* filtered kind.
C28_KindFilterOnHistory ==
    [][\A c \in Callers :
          LET f == run'[c].filters
              w == run'[c].work
          IN  (f.present /\ f.mediaType \in {"movie", "series"}) =>
                 /\ (pc[c] = "history" /\ pc'[c] = "items") =>
                       \/ \A i \in DOMAIN w : w[i].mediaType = f.mediaType
                       \/ /\ \A i \in DOMAIN w : w[i].mediaType # f.mediaType
                          /\ Len(w) = Min(run'[c].result.watchedCount, HistoryCap)
                 /\ \A rec \in Range(run'[c].uniqueRecs) : rec.mediaType = f.mediaType
                 /\ pc'[c] \in InPass =>
                       \A i \in DOMAIN recs' : recs'[i].mediaType = f.mediaType]_vars

\* A run filtered to movies over a history without a movie requested the
\* candidates of a series item and saved a movie
C28_FallbackToFullHistory ==
    \E c \in Callers :
        /\ run[c].filters.mediaType = "movie"
        /\ pc[c] \in {"merge", "autoadd"}
        /\ \E rec \in Range(run[c].allTmdbRecs) : rec.mediaType = "series"
        /\ \E rec \in Range(run[c].uniqueRecs) : rec.mediaType = "movie"

\* C29: in every run the items that produce a catalog request are the
\* first 10 items of the working history (the history items of the filtered
\* kind, or the whole history when there is no kind or no item of it), in
\* the order of the source, and no more than 10 requests are made; each
\* request adds at most ceil(maxPerRun / min(historyCount, 10)) candidates,
\* historyCount being the length of the working history.
C29_TenItemsBoundedEach ==
    [][\A c \in Callers : \A h \in env.long :
          LET f == run[c].filters
              ofKind == SelectSeq(h, LAMBDA w : w.mediaType = f.mediaType)
              working == IF f.present /\ f.mediaType \in {"movie", "series"}
                            /\ ofKind # <<>>
                         THEN ofKind ELSE h
              count == IF Len(working) < 10 THEN Len(working) ELSE 10
          IN  /\ (pc[c] = "history" /\ pc'[c] = "items") =>
                    run'[c].work = SubSeq(working, 1, count)
              /\ (pc[c] = "items" /\ pc'[c] \notin Ended) =>
                    /\ run[c].obs.recommender <= 10
                    /\ run'[c].work = Tail(run[c].work)
                    /\ Len(run'[c].allTmdbRecs) - Len(run[c].allTmdbRecs)
                          <= CeilDiv(run[c].maxPerRun, count)]_vars

\* A run over a history of more than 10 items has made its 10 item
\* requests and no other, and holds the candidate of a series item
C29_TenthItemAnswered ==
    \E c \in Callers :
        /\ run[c].result.watchedCount > 10
        /\ pc[c] = "merge"
        /\ run[c].obs.recommender = 10
        /\ run[c].allTmdbRecs # <<>>
        /\ run[c].allTmdbRecs[Len(run[c].allTmdbRecs)].mediaType = "series"

\* C30: a run that has processed its history items calls discoverByFilters
\* exactly when its filters hold a non-empty genre list, a year bound or a
\* media kind other than 'all' (a language alone does not count); the call
\* queries the kind of the filter when one is set and both kinds otherwise;
\* every candidate it contributes has provenance 'filter-discovery'; a
\* failure of the call or of one of its queries does not end the run, and
\* the results of the queries that were answered are kept.
C30_DiscoveryWhenFiltered ==
    [][\A c \in Callers :
          LET f == run[c].filters
              wanted == /\ f.present
                        /\ \/ Len(f.genres) > 0
                           \/ f.yearMin # 0
                           \/ f.yearMax # 0
                           \/ f.mediaType \in {"movie", "series"}
              kinds == IF f.mediaType \in {"movie", "series"}
                       THEN {f.mediaType} ELSE {"movie", "series"}
              before == Len(run[c].allTmdbRecs)
              new == IF pc'[c] \in Ended THEN <<>>
                     ELSE SubSeq(run'[c].allTmdbRecs, before + 1,
                                 Len(run'[c].allTmdbRecs))
          IN  /\ (pc[c] = "items" /\ pc'[c] = "discover") => wanted
              /\ (pc[c] = "items" /\ pc'[c] \notin {"items", "discover"}) => ~wanted
              /\ (pc[c] = "discover" /\ pc'[c] # "discover") =>
                    /\ run'[c].obs.queried = kinds
                    /\ \A i \in DOMAIN new : new[i].basedOn = <<"filter-discovery">>
                    /\ pc'[c] # "thrown"
                    /\ pc'[c] \notin Ended => Len(new) = run'[c].obs.found]_vars

\* C31: the enrichment of the merge changes no field of a candidate that
\* was set before it (title, kind, source, catalog id, year, poster,
\* non-empty genre list), leaves a candidate that has a poster and a
\* catalog id as it is, and a search of the enrichment that fails neither
\* drops the candidate (the run goes on to the library and filter checks
\* with it) nor adds an entry to RunResult.errors.
C31_EnrichmentFillsAbsent ==
    [][\A c \in Callers :
          (pc[c] = "merge" /\ run'[c] # run[c]) =>
              LET rec0 == Head(run[c].allRecs)
                  saved == run'[c].uniqueRecs
                  rec == saved[Len(saved)]
              IN  /\ Len(saved) > Len(run[c].uniqueRecs) =>
                        /\ rec.title = rec0.title
                        /\ rec.mediaType = rec0.mediaType
                        /\ rec.source = rec0.source
                        /\ rec0.tmdbId # 0 => rec.tmdbId = rec0.tmdbId
                        /\ rec0.year # 0 => rec.year = rec0.year
                        /\ rec0.poster => rec.poster
                        /\ Len(rec0.genres) > 0 => rec.genres = rec0.genres
                        /\ (rec0.poster /\ rec0.tmdbId # 0) =>
                              [rec EXCEPT !.tvdbId = rec0.tvdbId] = rec0
                  /\ run'[c].obs.searchDown > run[c].obs.searchDown =>
                        /\ pc'[c] # "thrown"
                        /\ run'[c].result.errors = run[c].result.errors
                        /\ run'[c].obs.skipped + run'[c].obs.filtered
                              + run'[c].obs.persist
                           = run[c].obs.skipped + run[c].obs.filtered
                              + run[c].obs.persist + 1]_vars

\* C32: from the answer of the history request until the run ends the
\* library snapshot of a run is not modified; when the first candidate is
\* examined it holds, for each target, the ids and lower-cased titles of the
\* listing made in this run, or nothing if that listing failed (whatever an
\* earlier run had listed), and the titles of this run's history; a call
\* starts from an empty snapshot.
C32_SnapshotBuiltOncePerRun ==
    [][\A c \in Callers :
          LET lib == run'[c].library
              failed == run'[c].obs.unlisted
          IN  /\ (pc[c] \in {"items", "discover", "ai", "merge", "autoadd"}
                    /\ pc'[c] # "idle") =>
                    lib = run[c].library
              /\ (pc[c] = "idle" /\ pc'[c] # "idle") => lib = EmptyLibrary
              /\ pc'[c] \in {"items", "discover", "ai", "merge"} =>
                    /\ lib.radarrTmdbIds =
                          IF "radarr" \in failed THEN {}
                          ELSE {m.tmdbId : m \in radarrLib'} \ {0}
                    /\ lib.radarrTitles =
                          IF "radarr" \in failed THEN {}
                          ELSE {toLowerCase(m.title) : m \in radarrLib'}
                    /\ lib.sonarrTvdbIds =
                          IF "sonarr" \in failed THEN {}
                          ELSE {x.tvdbId : x \in sonarrLib'} \ {0}
                    /\ lib.sonarrTitles =
                          IF "sonarr" \in failed THEN {}
                          ELSE {toLowerCase(x.title) : x \in sonarrLib'}
                    /\ (lib.watchedTitles # {}) <=> (run'[c].result.watchedCount > 0)]_vars

\* The second run of a caller examines a candidate with an empty Radarr
\* snapshot, its listing having failed, after the first run listed Radarr
\* and added a movie to it
C32_SecondRunStartsEmpty ==
    \E c \in Callers :
        /\ callsLeft[c] = 0
        /\ pc[c] = "merge"
        /\ radarrLib # {}
        /\ "radarr" \in run[c].obs.unlisted
        /\ run[c].library.radarrTmdbIds = {}

\* C33: the totalNew of a run that returned equals the number of records
\* the run inserted into the table: a candidate whose identity an earlier
\* run stored is not counted as new (and the stored record is left as it
\* was).
C33_TotalNewCountsInserts ==
    \A c \in Callers :
        pc[c] = "returned" =>
            run[c].result.totalNew = run[c].obs.persist - run[c].obs.existing

\* C34: a POST /api/engine that starts no run because another run is in
\* progress is answered 409 (never 500, the answer to a call the engine
\* rejected with 'already running'), and of two concurrent requests at most
\* one is in a run at any time.
C34_BusyAnswered409 ==
    /\ \A c \in env.posters : pc[c] # "rejected"
    /\ Cardinality(Passes) <= 1

C36_KindsKeptApart ==
    \A c \in Callers :
        LET merged == run[c].allTmdbRecs \o run[c].aiRecs
            done == Len(merged) - Len(run[c].allRecs)
            same(i, j) ==
                IF merged[i].tmdbId # 0 THEN merged[j].tmdbId = merged[i].tmdbId
                ELSE /\ merged[j].tmdbId = 0
                     /\ toLowerCase(merged[j].title) = toLowerCase(merged[i].title)
        IN  pc[c] \in {"merge", "autoadd"} =>
               \A j \in 1..done :
                   (\A i \in 1..(j - 1) :
                       same(i, j) => merged[i].mediaType # merged[j].mediaType)
                       => j \in Range(run[c].obs.kept)

\* C37: the status of every stored recommendation is 'pending', 'rejected'
\* or 'added', before and after every step of a pass, of a commit and of a
\* PATCH (approve, reject, pending): none stores 'approved'; and every row a
\* step adds to the table has the status 'pending'
C37_ThreeStatusesStored ==
    [][/\ \A i \in DOMAIN recs : recs[i].status \in {"pending", "rejected", "added"}
       /\ \A i \in DOMAIN recs' : recs'[i].status \in {"pending", "rejected", "added"}
       /\ \A i \in DOMAIN recs' \ DOMAIN recs : recs'[i].status = "pending"]_vars

\* A row the pass stored was set to 'rejected' by a PATCH, and a commit that
\* read it as 'rejected' has set it to 'added'
C37_RowWentThroughAll ==
    \E i \in DOMAIN recs, c \in env.approvers :
        /\ recs[i].status = "added"
        /\ recs[i].source = "ai"
        /\ pc[c] = "replied"
        /\ run[c].approve.id = recs[i].id
        /\ run[c].approve.status = "rejected"
        /\ run[c].approve.success

\* C38: getRecommendationsForItem merges and deduplicates: answered with the
\* lists recommendations and similar, it returns the first maxPerItem
\* results with distinct catalog ids of recommendations followed by similar,
\* in that order; what it returns never holds two entries with the same
\* catalog id and never more than maxPerItem entries.
C38_FirstDistinctResults ==
    [][\A c \in Callers :
          LET both == run'[c].obs.lists
              firsts == {i \in DOMAIN both : \A j \in 1..(i - 1) : both[j].id # both[i].id}
              want == {i \in firsts :
                          Cardinality({j \in firsts : j < i}) < run[c].maxPerItem}
              old == Len(run[c].allTmdbRecs)
              got == [k \in 1..(Len(run'[c].allTmdbRecs) - old) |->
                         run'[c].allTmdbRecs[old + k]]
          IN  (/\ pc[c] = "items"
               /\ pc'[c] \notin Ended
               /\ run'[c].result.errors = run[c].result.errors) =>
                  /\ Len(got) = Cardinality(want)
                  /\ \A k \in DOMAIN got :
                        \E i \in want :
                            /\ Cardinality({j \in want : j < i}) = k - 1
                            /\ got[k].tmdbId = both[i].id]_vars

\* C39: configuration read-your-writes and precedence.  The first getConfig
\* call after a save that was stored returns the saved values (a saved
\* empty string counting as no value), and every getConfig call returns, per
\* value, the stored setting if it is non-empty, else the environment
\* variable if it is non-empty, else the default.
C39_ReadYourWrites ==
    [][settings'.last = "get" =>
          /\ settings.unread =>
                \A k \in DOMAIN settings.saved :
                    settings.saved[k] # "" => settings'.config[k] = settings.saved[k]
          /\ \A k \in SettingKeys :
                settings'.config[k] =
                    IF settings.stored[k] # "" THEN settings.stored[k]
                    ELSE IF settings.environ[k] # "" THEN settings.environ[k]
                    ELSE IF k = "ai_model" THEN "gpt-4o" ELSE ""]_vars

=============================================================================
